---- MODULE Spec2Model ----
(***************************************************************************)
(* Bulker bulk-loading core: one Batch or ReplaceTable stream writing to   *)
(* one destination table of a MySQL-like warehouse.                        *)
(*                                                                         *)
(* The stream handlers Consume / Complete / Abort are serial on a stream.  *)
(* Complete is split at its adapter calls (one database statement per      *)
(* step, position kept in pc), because the database is observable by       *)
(* other sessions between two statements.  MySQL DDL (RENAME / DROP /      *)
(* TRUNCATE) commits implicitly, so those statements act on db at once;    *)
(* rows copied into the destination inside the stream transaction become   *)
(* visible on commit only.                                                 *)
(***************************************************************************)
EXTENDS Integers, Sequences, FiniteSets, TLC

\* ------------------------------------------------------------------ bounds
\* Largest number of Consume calls on the stream.
MaxRecords == 2
\* Wall clock seconds 0..MaxClock (timestamp suffix of deprecated_ tables).
MaxClock == 1
\* Primary-key values 1..MaxId carried by the records.
MaxId == 2

\* ------------------------------------------------------------------- types
DataTypes == {"STRING", "INT64", "FLOAT64", "BOOL", "TIMESTAMP", "JSON", "UNKNOWN"}

\* The pairs listed in the least-common-type table (rows x columns).
LatticeRows == {"INT64", "FLOAT64", "BOOL", "TIMESTAMP"}
LatticeCols == {"INT64", "FLOAT64", "BOOL", "STRING", "TIMESTAMP"}

LatticeEntry(a, b) ==
    IF a = b THEN a
    ELSE IF {a, b} = {"INT64", "FLOAT64"} THEN "FLOAT64"
    ELSE "STRING"

\* A plausible slip: the left operand wins for the numeric pair.
JoinLeftBiased(a, b) ==
    IF a = "UNKNOWN" THEN b
    ELSE IF b = "UNKNOWN" THEN a
    ELSE IF a \in LatticeRows /\ b \in LatticeCols
         THEN (IF {a, b} = {"INT64", "FLOAT64"} THEN a ELSE LatticeEntry(a, b))
    ELSE "STRING"

\* Least common type of two data types.
Join(a, b) ==
    IF a = "UNKNOWN" THEN b
    ELSE IF b = "UNKNOWN" THEN a
    ELSE IF a \in LatticeRows /\ b \in LatticeCols THEN LatticeEntry(a, b)
    ELSE "STRING"

\* ------------------------------------------------------------------ tables
ColNames == {"id", "v"}
NoCol == "none"
Ids == 1..MaxId

NoColumns == [c \in ColNames |-> NoCol]

\* A table of the database: column name -> type (NoCol when absent),
\* primary-key fields and rows in insertion order.  A row is [id, n]: its
\* key and the ordinal of the successful record that wrote it (0: before the
\* stream started).
NoTable == [cols |-> NoColumns, pk |-> {}, rows |-> <<>>]

ColumnsOf(t) == {c \in ColNames : t.cols[c] # NoCol}

\* Table.Exists: at least one column or primary-key field.
Exists(t) == ColumnsOf(t) # {} \/ t.pk # {}

\* A slip: a column both tables have is reported when its type differs.
DiffColumnsTyped(current, another) ==
    [c \in ColNames |->
        IF Exists(another) /\ current.cols[c] # another.cols[c]
        THEN another.cols[c] ELSE NoCol]

\* Table.Diff, column part: the columns of another missing from current.
DiffColumns(current, another) ==
    [c \in ColNames |->
        IF Exists(another) /\ current.cols[c] = NoCol THEN another.cols[c] ELSE NoCol]

\* A slip: a row whose key is taken is dropped, the first one stays
\* (INSERT IGNORE).
UpsertKeepFirst(rows, r) ==
    IF \E i \in DOMAIN rows : rows[i].id = r.id THEN rows ELSE Append(rows, r)

\* One row under ON DUPLICATE KEY UPDATE: it takes the place of the row
\* with its key, or is added.
RECURSIVE Upsert(_, _)
Upsert(rows, r) ==
    IF rows = <<>> THEN <<r>>
    ELSE IF Head(rows).id = r.id THEN <<r>> \o Tail(rows)
    ELSE <<Head(rows)>> \o Upsert(Tail(rows), r)

RECURSIVE MergeRows(_, _)
MergeRows(dstRows, srcRows) ==
    IF srcRows = <<>> THEN dstRows
    ELSE MergeRows(Upsert(dstRows, Head(srcRows)), Tail(srcRows))

\* A slip: the merge flag is ignored and rows are always appended.
CopyRowsAppendOnly(dstRows, srcRows, mergeFlag) == dstRows \o srcRows

\* MySQL.CopyTables: plain INSERT..SELECT, or INSERT..SELECT ON DUPLICATE
\* KEY UPDATE when merge is set.
CopyRows(dstRows, srcRows, mergeFlag) ==
    IF mergeFlag THEN MergeRows(dstRows, srcRows) ELSE dstRows \o srcRows

\* Database object names.
DstName == [kind |-> "dst", ts |-> 0]
TmpName == [kind |-> "tmp", ts |-> 0]
DeprecatedName(t) == [kind |-> "deprecated", ts |-> t]
Names == {DstName, TmpName} \cup {DeprecatedName(t) : t \in 0..MaxClock}

\* --------------------------------------------------------------- variables
VARIABLES
    mode,           \* "Batch" | "ReplaceTable" | "Stream"
    merge,          \* stream option merge (with primary key id)
    useBatchFile,   \* localBatchFile option set (ps.batchFile used)
    status,         \* state.Status
    lastError,      \* state.LastError ("nil" when unset)
    successfulRows, \* state.SuccessfulRows
    processedRows,  \* state.ProcessedRows
    inited,         \* ps.inited
    tx,             \* ps.tx: "none" | "open" | "committed" | "rolledback"
    batchFile,      \* [open, rows]: the local batch file
    tmpCols,        \* columns accumulated for the temp / side table
    joinRev,        \* history: the types inferred for v, joined last to first
    okIds,          \* history: keys of the successfully consumed records
    seenCols,       \* history: columns of the successfully consumed records
    lastOk,         \* history: key -> ordinal of the last accepted record with it
    errAtCall,      \* history: last_error when Complete was entered ("none": not yet)
    db,             \* the database: name -> table
    txDst,          \* the destination as seen inside the open transaction
    txDirty,        \* the transaction holds uncommitted changes to dst
    dst0,           \* history: the destination when the stream was created
    now,            \* wall clock
    pc,             \* position inside Complete
    err,            \* Complete's err
    rt,             \* locals of the running ReplaceTable call
    log,            \* adapter calls issued by Complete, in order
    lastOp,         \* the API call that ran last
    ret,            \* what it returned
    cur,            \* Table.Diff: the receiver (current schema)
    inc,            \* Table.Diff: the argument (incoming schema)
    made,           \* the Table value built last
    madeBy,         \* the function that built it
    json,           \* FlattenObject: the input object
    flat,           \* FlattenObject(json)
    reflat,         \* FlattenObject(flat)
    sc,             \* StreamConsumer: destination, stream pointer, closed channel
    bulkerStreams,  \* the streams CreateStream returned: id -> stream
    leases,         \* destination -> Lease calls minus Release calls
    loop,           \* the goroutine of start(): position and locals
    ctl,            \* the caller of NewStreamConsumer / UpdateDestination / Close
    failedTopic,    \* messages produced to the 'failed' topic, by their number
    sidecar,        \* SideCar: the fields Run and the readers work on
    procs,          \* the sidecar's goroutines and the process itself
    pipes,          \* stream name -> the pipe to its bulk request
    sent,           \* what the sidecar has sent: final statuses, the sync state
    rwp,            \* RollingWriterProxy: records, and the log file under it
    rwpProcs        \* the ticker goroutine and the Write calls in flight

vars == <<mode, merge, useBatchFile, status, lastError, successfulRows,
          processedRows, inited, tx, batchFile, tmpCols, joinRev, okIds, seenCols, errAtCall,
          lastOk, db, txDst, txDirty, dst0, now, pc, err, rt, log, lastOp, ret,
          cur, inc, made, madeBy, json, flat, reflat,
          sc, bulkerStreams, leases, loop, ctl, failedTopic,
          sidecar, procs, pipes, sent, rwp, rwpProcs>>

config == <<mode, merge, useBatchFile, dst0>>
counters == <<successfulRows, processedRows>>
history == <<joinRev, okIds, seenCols, lastOk>>

\* The variables of the stream, of the schema functions and of the flattener.
streamVars == <<mode, merge, useBatchFile, status, lastError, successfulRows,
                processedRows, inited, tx, batchFile, tmpCols, joinRev, okIds,
                seenCols, errAtCall, lastOk, db, txDst, txDirty, dst0, now, pc,
                err, rt, log, lastOp, ret>>
schemaVars == <<cur, inc, made, madeBy>>
flattenVars == <<json, flat, reflat>>
consumerVars == <<sc, bulkerStreams, leases, loop, ctl, failedTopic>>
sidecarVars == <<sidecar, procs, pipes, sent>>
writerVars == <<rwp, rwpProcs>>
pureVars == <<schemaVars, flattenVars, consumerVars, sidecarVars, writerVars>>

\* Nothing built, nothing flattened.
None == "none"

\* Streams and destinations a StreamConsumer meets, messages it reads.
MaxStreams == 3
MaxMessages == 2

\* Rows the sidecar reads from the source's stdout; Write calls on a
\* rolling writer.
MaxRows == 3
MaxWrites == 2

\* The stream names of a source.
StreamNames == {"A", "B"}

\* SideCar before Run: no error (0), no current stream (""), no processed
\* stream (-1 stands for a name that is not in the processedStreams map),
\* nothing sent.  errors counts the errors reported so far and clearedAt is
\* that count when firstErr was last reset; firstErr holds the number of
\* the error it keeps.
NotRun ==
    [sidecar |-> [command |-> "none", firstErr |-> 0, currentStreamName |-> "",
                  processedStreams |-> [n \in StreamNames |-> -1],
                  state |-> FALSE, eventsCounter |-> 0,
                  catalog |-> {}, errors |-> 0, clearedAt |-> 0],
     procs |-> [main |-> "off", out |-> "off", err |-> "off",
                bulk |-> [n \in StreamNames |-> "none"], rows |-> 0, row |-> "none",
                crashing |-> FALSE, exit |-> "running"],
     pipes |-> [n \in StreamNames |-> [records |-> 0, end |-> "none"]],
     sent |-> [status |-> <<>>, state |-> FALSE]]

\* No rolling writer.  file counts the writes that reached the current log
\* file; rotated lists the rotate calls and the initial rotation, each with
\* the size of the file it met and whether it rotated the file.
NoWriter ==
    [rwp |-> [records |-> 0, file |-> 0, rotated |-> <<>>, rotateOnClose |-> FALSE,
              closed |-> FALSE],
     rwpProcs |-> [ticker |-> "off", closer |-> "off", writing |-> 0, written |-> 0]]

\* Before NewStreamConsumer: no stream pointer (0), no destination (0), the
\* closed channel open, no stream created, no lease, no goroutine.
Unstarted ==
    [sc |-> [destination |-> 0, stream |-> 0, closed |-> FALSE],
     bulkerStreams |-> [i \in 1..MaxStreams |->
                          [dest |-> 0, status |-> "none", consuming |-> FALSE, terminal |-> 0]],
     leases |-> [d \in 1..MaxStreams |-> 0],
     loop |-> [pc |-> "off", stream |-> 0, message |-> "none", read |-> 0, err |-> "nil"],
     ctl |-> [pc |-> "new", destination |-> 0, old |-> 0, ret |-> "none"]]

NoRT == [dropOld |-> FALSE, err1 |-> "nil", err |-> "nil", ts |-> 0, fault |-> FALSE]
NoFile == [open |-> FALSE, rows |-> <<>>]

\* A destination that exists before the stream starts: column id, one row.
OldTable == [cols |-> [c \in ColNames |-> IF c = "id" THEN "INT64" ELSE NoCol],
             pk |-> {}, rows |-> <<[id |-> 1, n |-> 0]>>]

Init ==
    /\ mode \in {"Batch", "ReplaceTable"}
    /\ merge \in BOOLEAN
    /\ useBatchFile \in BOOLEAN
    /\ dst0 \in {NoTable, [OldTable EXCEPT !.pk = IF merge THEN {"id"} ELSE {}]}
    /\ status = "Active"
    /\ lastError = "nil"
    /\ successfulRows = 0
    /\ processedRows = 0
    /\ inited = FALSE
    /\ tx = "none"
    /\ batchFile = NoFile
    /\ tmpCols = NoColumns
    /\ joinRev = "UNKNOWN"
    /\ okIds = {}
    /\ seenCols = {}
    /\ lastOk = [i \in Ids |-> 0]
    /\ errAtCall = "none"
    /\ db = [n \in Names |-> IF n = DstName THEN dst0 ELSE NoTable]
    /\ txDst = NoTable
    /\ txDirty = FALSE
    /\ now = 0
    /\ pc = "idle"
    /\ err = "nil"
    /\ rt = NoRT
    /\ log = <<>>
    /\ lastOp = "none"
    /\ ret = "nil"
    /\ cur = None /\ inc = None /\ made = None /\ madeBy = None
    /\ json = None /\ flat = None /\ reflat = None
    /\ sc = Unstarted.sc /\ bulkerStreams = Unstarted.bulkerStreams /\ leases = Unstarted.leases
    /\ loop = Unstarted.loop /\ ctl = Unstarted.ctl /\ failedTopic = <<>>
    /\ sidecar = NotRun.sidecar /\ procs = NotRun.procs /\ pipes = NotRun.pipes
    /\ sent = NotRun.sent /\ rwp = NoWriter.rwp /\ rwpProcs = NoWriter.rwpProcs


\* ----------------------------------------------------------------- Consume
\* Error kinds a failing step of Consume may surface.
ErrorKinds == {"RowError", "Fatal"}
FailPoints == {"none", "init", "preprocess", "write"}

\* Type coalescing across the batch: the column's running type is joined
\* with the type inferred for the record (vt = NoCol: the record has no v).
AdjustColumns(cols, vt) ==
    [c \in ColNames |->
        IF c = "id" THEN "INT64"
        ELSE IF vt = NoCol THEN cols[c]
        ELSE Join(IF cols[c] = NoCol THEN "UNKNOWN" ELSE cols[c], vt)]

\* init: nothing to do once inited; a stream that is not Active is not
\* opened; else the transaction and the batch file are opened, or it fails.
InitError(fail, kind) ==
    IF inited THEN "nil"
    ELSE IF status # "Active" THEN "StreamClosed"
    ELSE IF fail = "init" THEN kind
    ELSE "nil"

\* preprocess: a stream that is not Active rejects the record.
PreprocessError(fail, kind) ==
    IF status # "Active" THEN "StreamClosed"
    ELSE IF fail = "preprocess" THEN kind
    ELSE "nil"

\* postConsume: counters, last error, and Failed on a fatal error.
PostConsume(e) ==
    /\ processedRows' = processedRows + 1
    /\ successfulRows' = IF e = "nil" THEN successfulRows + 1 ELSE successfulRows
    /\ lastError' = IF e = "nil" THEN lastError ELSE e
    /\ status' = IF e = "Fatal" /\ status = "Active" THEN "Failed" ELSE status
    /\ ret' = e

\* The temp table (Batch) or side table (ReplaceTable) as the stream
\* builds it: accumulated columns, the primary key when merging.
TmpTableWith(cols, rows) ==
    [cols |-> cols, pk |-> IF merge THEN {"id"} ELSE {}, rows |-> rows]

\* A slip: the early return on a preprocess error is missing.
ConsumeWritesAlways(preErr) == TRUE

\* Consume returns before writing when preprocess returned an error.
ConsumeWrites(preErr) == preErr = "nil"

\* ReplaceTableStream.Consume (the Batch stream consumes alike):
\* init, preprocess, then append to the batch file or insert into the
\* temp / side table; postConsume runs on every exit path.
Consume(id, vt, fail, kind) ==
    /\ pc = "idle"
    /\ processedRows < MaxRecords
    /\ fail = "init" => ~inited
    /\ lastOp' = "Consume"
    /\ LET initErr == InitError(fail, kind)
           preErr == PreprocessError(fail, kind)
           attempted == initErr = "nil" /\ ConsumeWrites(preErr)
           e == IF initErr # "nil" THEN initErr
                ELSE IF ~attempted THEN preErr
                ELSE IF fail = "write" THEN kind ELSE "nil"
           written == attempted /\ fail # "write"
           row == [id |-> id, n |-> successfulRows + 1]
           file == IF inited THEN batchFile ELSE [open |-> useBatchFile, rows |-> <<>>]
       IN  /\ inited' = (inited \/ initErr = "nil")
           /\ tx' = IF ~inited /\ initErr = "nil" THEN "open" ELSE tx
           /\ tmpCols' = IF written THEN AdjustColumns(tmpCols, vt) ELSE tmpCols
           /\ batchFile' = IF initErr # "nil" THEN batchFile
                           ELSE IF written /\ file.open
                                THEN [file EXCEPT !.rows = Append(@, row)]
                           ELSE file
           /\ db' = IF written /\ ~file.open
                    THEN [db EXCEPT ![TmpName] =
                            TmpTableWith(tmpCols', Append(@.rows, row))]
                    ELSE db
           /\ joinRev' = IF written /\ vt # NoCol THEN Join(vt, joinRev) ELSE joinRev
           /\ okIds' = IF written THEN okIds \cup {id} ELSE okIds
           /\ lastOk' = IF written THEN [lastOk EXCEPT ![id] = successfulRows + 1]
                        ELSE lastOk
           /\ seenCols' = IF written
                          THEN seenCols \cup {"id"} \cup (IF vt = NoCol THEN {} ELSE {"v"})
                          ELSE seenCols
           /\ PostConsume(e)
    /\ UNCHANGED <<pureVars, config, txDst, txDirty, now, pc, err, rt, log, errAtCall>>

\* ------------------------------------------------------------------- Abort
\* Abort is idempotent: on an Active stream it rolls back, drops the temp
\* table, unlinks the batch file and ends Aborted; otherwise it does nothing.
Abort ==
    /\ pc = "idle"
    /\ lastOp' = "Abort"
    /\ ret' = "nil"
    /\ IF status = "Active"
       THEN /\ status' = "Aborted"
            /\ tx' = IF tx = "open" THEN "rolledback" ELSE tx
            /\ batchFile' = NoFile
            /\ db' = [db EXCEPT ![TmpName] = NoTable]
            /\ txDirty' = FALSE
       ELSE UNCHANGED <<status, tx, batchFile, db, txDirty>>
    /\ UNCHANGED <<pureVars, config, lastError, counters, inited, tmpCols, history,
                   txDst, now, pc, err, rt, log, errAtCall>>


\* ---------------------------------------------------------------- Complete
Logged(op, res) == Append(log, [op |-> op, res |-> res])

streamState == <<status, lastError, successfulRows, processedRows>>
staging == <<batchFile, tmpCols, inited>>

\* A slip: the status check at the top of Complete is missing.
CompleteAllowedAlways == TRUE

\* Complete proceeds on an Active stream only.
CompleteAllowed == status = "Active"

\* Complete on a stream that is not Active: an error, nothing else.
CompleteNotActive ==
    /\ pc = "idle"
    /\ ~CompleteAllowed
    /\ lastOp' = "Complete"
    /\ ret' = "NotActive"
    /\ UNCHANGED <<pureVars, config, errAtCall, streamState, staging, tx, history, db, txDst,
                   txDirty, now, pc, err, rt, log>>

\* A slip: ReplaceTable swaps tables even when nothing was consumed.
FirstStepAlwaysReplace ==
    IF mode = "Batch"
    THEN (IF successfulRows > 0
          THEN (IF batchFile.open THEN "flush" ELSE "ensure")
          ELSE "post")
    ELSE (IF lastError = "nil"
          THEN (IF batchFile.open THEN "flush" ELSE "replace")
          ELSE "post")

\* Where Complete goes first.  Batch looks at SuccessfulRows only;
\* ReplaceTable looks at LastError first.
FirstStep ==
    IF mode = "Batch"
    THEN (IF successfulRows > 0
          THEN (IF batchFile.open THEN "flush" ELSE "ensure")
          ELSE "post")
    ELSE (IF lastError = "nil"
          THEN (IF successfulRows > 0
                THEN (IF batchFile.open THEN "flush" ELSE "replace")
                ELSE "schema")
          ELSE "post")

CompleteBegin ==
    /\ pc = "idle"
    /\ CompleteAllowed
    /\ lastOp' = "Complete"
    /\ pc' = FirstStep
    /\ err' = IF FirstStep = "post" THEN lastError ELSE "nil"
    /\ errAtCall' = lastError
    /\ UNCHANGED <<pureVars, config, streamState, staging, tx, history, db, txDst,
                   txDirty, now, rt, log, ret>>

\* A slip: the error of flushBatchFile is not checked.
AfterFlushIgnoringError(e) == IF mode = "Batch" THEN "ensure" ELSE "replace"

\* After flushBatchFile: return on error, else the next adapter call.
AfterFlush(e) ==
    IF e # "nil" THEN "post"
    ELSE IF mode = "Batch" THEN "ensure" ELSE "replace"

\* flushBatchFile: the rows of the batch file are loaded into the temp /
\* side table with one load_table call.
FlushBatchFile ==
    /\ pc = "flush"
    /\ \E e \in {"nil", "LoadError"} :
        /\ log' = Logged("flush", e)
        /\ db' = IF e = "nil"
                 THEN [db EXCEPT ![TmpName] = TmpTableWith(tmpCols, batchFile.rows)]
                 ELSE db
        /\ err' = e
        /\ pc' = AfterFlush(e)
    /\ UNCHANGED <<pureVars, config, errAtCall, streamState, staging, tx, history, txDst, txDirty,
                   now, rt, lastOp, ret>>

\* The destination after ensure: created with the accumulated columns, or
\* patched with the columns Diff reports missing (types are not compared).
Ensured(current) ==
    IF ~Exists(current)
    THEN TmpTableWith(tmpCols, <<>>)
    ELSE [current EXCEPT !.cols =
            [c \in ColNames |->
                IF DiffColumns(current, TmpTableWith(tmpCols, <<>>))[c] # NoCol
                THEN DiffColumns(current, TmpTableWith(tmpCols, <<>>))[c]
                ELSE current.cols[c]]]

AfterEnsure(e) == IF e # "nil" THEN "post" ELSE "copy"

\* EnsureTableWithoutCaching on the destination, inside the transaction.
EnsureTable ==
    /\ pc = "ensure"
    /\ \E e \in {"nil", "EnsureError"} :
        /\ log' = Logged("ensure", e)
        /\ txDst' = IF e = "nil" THEN Ensured(db[DstName]) ELSE txDst
        /\ txDirty' = (txDirty \/ e = "nil")
        /\ err' = e
        /\ pc' = AfterEnsure(e)
    /\ UNCHANGED <<pureVars, config, errAtCall, streamState, staging, tx, history, db, now, rt,
                   lastOp, ret>>

\* CopyTables(dst, tmp, merge), inside the transaction.
CopyTables ==
    /\ pc = "copy"
    /\ \E e \in {"nil", "CopyError"} :
        /\ log' = Logged("copy", e)
        /\ txDst' = IF e = "nil"
                    THEN [txDst EXCEPT !.rows = CopyRows(@, db[TmpName].rows, merge)]
                    ELSE txDst
        /\ err' = e
        /\ pc' = "post"
    /\ UNCHANGED <<pureVars, config, errAtCall, streamState, staging, tx, history, db, txDirty,
                   now, rt, lastOp, ret>>


\* ------------------------------------------------------ MySQL.ReplaceTable
\* RENAME TABLE from TO to: fails when from is missing or to is taken.
RenameFails(d, from, to) == ~Exists(d[from]) \/ Exists(d[to])

Renamed(d, from, to) == [d EXCEPT ![to] = d[from], ![from] = NoTable]

\* A slip: the retry is taken on any error of the first call.
RetryWantedOnAnyError(res) == res # "nil"

\* Complete retries ReplaceTable without the drop on a DropError only.
RetryWanted(res) == res = "DropError"

\* What Complete does with the result of a ReplaceTable call.
AfterReplace(dropOld, res) ==
    IF dropOld /\ RetryWanted(res) THEN "replace_retry" ELSE "post"

\* A slip: the drop does not look at the first rename.
DropWantedAfterSecondRename(dropOld, err1, e) == dropOld /\ e = "nil"

\* The deprecated table is dropped only after two successful renames.
DropWanted(dropOld, err1, e) == dropOld /\ err1 = "nil" /\ e = "nil"

\* First statement of ReplaceTable: the deprecated name is stamped with
\* the current second, then renameTable(ifExists, target, deprecated).
\* The existence probe itself may fail; a missing target is not an error.
RTRenameOld ==
    /\ pc \in {"replace", "replace_retry"}
    /\ \E t \in now..MaxClock, probe \in {"nil", "RenameError"} :
        LET dep == DeprecatedName(t)
            e1 == IF probe # "nil" THEN probe
                  ELSE IF ~Exists(db[DstName]) THEN "nil"
                  ELSE IF RenameFails(db, DstName, dep) THEN "RenameError"
                  ELSE "nil"
            moved == probe = "nil" /\ Exists(db[DstName]) /\ e1 = "nil"
        IN  /\ now' = t
            /\ rt' = [dropOld |-> (pc = "replace"), err1 |-> e1, err |-> "nil",
                      ts |-> t, fault |-> (probe # "nil")]
            /\ db' = IF moved THEN Renamed(db, DstName, dep) ELSE db
    /\ pc' = "rt_rename"
    /\ UNCHANGED <<pureVars, config, errAtCall, streamState, staging, tx, history, txDst, txDirty,
                   err, log, lastOp, ret>>

\* Second statement: renameTable(replacement, target); without a drop to
\* follow, ReplaceTable returns its error (err1 is not returned).
RTRenameNew ==
    /\ pc = "rt_rename"
    /\ \E inj \in {"nil", "RenameError"} :
        LET e == IF inj # "nil" \/ RenameFails(db, TmpName, DstName)
                 THEN "RenameError" ELSE "nil"
            op == IF rt.dropOld THEN "replace_true" ELSE "replace_false"
        IN  /\ db' = IF e = "nil" THEN Renamed(db, TmpName, DstName) ELSE db
            /\ rt' = [rt EXCEPT !.err = e, !.fault = (@ \/ inj # "nil")]
            /\ IF DropWanted(rt.dropOld, rt.err1, e)
               THEN /\ pc' = "rt_drop"
                    /\ UNCHANGED <<err, log>>
               ELSE /\ pc' = AfterReplace(rt.dropOld, e)
                    /\ err' = e
                    /\ log' = Logged(op, e)
    /\ UNCHANGED <<pureVars, config, errAtCall, streamState, staging, tx, history, txDst, txDirty,
                   now, lastOp, ret>>

\* Third statement: DropTable(deprecated, ifExists); its result is the
\* result of ReplaceTable.
RTDropOld ==
    /\ pc = "rt_drop"
    /\ \E e \in {"nil", "DropError"} :
        /\ db' = IF e = "nil"
                 THEN [db EXCEPT ![DeprecatedName(rt.ts)] = NoTable] ELSE db
        /\ pc' = AfterReplace(rt.dropOld, e)
        /\ err' = e
        /\ log' = Logged("replace_true", e)
    /\ UNCHANGED <<pureVars, config, errAtCall, streamState, staging, tx, history, txDst, txDirty,
                   now, rt, lastOp, ret>>

\* ------------------------------------- ReplaceTable with nothing consumed
\* GetTableSchema(dst) outside any transaction; truncate when it exists.
GetSchema ==
    /\ pc = "schema"
    /\ \E e \in {"nil", "SchemaError"} :
        /\ log' = Logged("get_schema", e)
        /\ err' = e
        /\ pc' = IF e = "nil" /\ Exists(db[DstName]) THEN "truncate" ELSE "post"
    /\ UNCHANGED <<pureVars, config, errAtCall, streamState, staging, tx, history, db, txDst,
                   txDirty, now, rt, lastOp, ret>>

TruncateTable ==
    /\ pc = "truncate"
    /\ \E e \in {"nil", "TruncateError"} :
        /\ log' = Logged("truncate", e)
        /\ db' = IF e = "nil" THEN [db EXCEPT ![DstName].rows = <<>>] ELSE db
        /\ err' = e
        /\ pc' = "post"
    /\ UNCHANGED <<pureVars, config, errAtCall, streamState, staging, tx, history, txDst, txDirty,
                   now, rt, lastOp, ret>>

\* ------------------------------------------------------------ postComplete
\* A slip: a failing Complete leaves the batch file and the temp table.
PostCompleteKeepsStaging ==
    /\ pc = "post"
    /\ \E c \in {"nil", "CommitError"} :
        LET e == IF err # "nil" THEN err
                 ELSE IF lastError # "nil" THEN lastError
                 ELSE IF tx = "open" THEN c ELSE "nil"
            rollback == err # "nil" \/ lastError # "nil"
        IN  /\ (c # "nil") => (tx = "open" /\ ~rollback)
            /\ batchFile' = IF e = "nil" THEN NoFile ELSE batchFile
            /\ tx' = IF tx # "open" THEN tx
                     ELSE IF e = "nil" THEN "committed" ELSE "rolledback"
            /\ db' = [db EXCEPT ![TmpName] = IF e = "nil" THEN NoTable ELSE @,
                                ![DstName] = IF e = "nil" /\ txDirty THEN txDst ELSE @]
            /\ log' = IF tx # "open" THEN log
                      ELSE IF rollback THEN Logged("rollback", "nil")
                      ELSE Logged("commit", c)
            /\ status' = IF e = "nil" THEN "Completed" ELSE "Failed"
            /\ lastError' = e
            /\ ret' = e
    /\ txDirty' = FALSE
    /\ pc' = "idle"
    /\ err' = "nil"
    /\ UNCHANGED <<pureVars, config, errAtCall, counters, tmpCols, inited, history, txDst,
                   now, rt, lastOp>>

\* Releases the batch file and the temp table; rolls back when Complete
\* failed or last_error is set and returns that error, else commits.
PostComplete ==
    /\ pc = "post"
    /\ \E c \in {"nil", "CommitError"} :
        LET e == IF err # "nil" THEN err
                 ELSE IF lastError # "nil" THEN lastError
                 ELSE IF tx = "open" THEN c ELSE "nil"
            rollback == err # "nil" \/ lastError # "nil"
        IN  /\ (c # "nil") => (tx = "open" /\ ~rollback)
            /\ batchFile' = NoFile
            /\ tx' = IF tx # "open" THEN tx
                     ELSE IF e = "nil" THEN "committed" ELSE "rolledback"
            /\ db' = [db EXCEPT ![TmpName] = NoTable,
                                ![DstName] = IF e = "nil" /\ txDirty THEN txDst ELSE @]
            /\ log' = IF tx # "open" THEN log
                      ELSE IF rollback THEN Logged("rollback", "nil")
                      ELSE Logged("commit", c)
            /\ status' = IF e = "nil" THEN "Completed" ELSE "Failed"
            /\ lastError' = e
            /\ ret' = e
    /\ txDirty' = FALSE
    /\ pc' = "idle"
    /\ err' = "nil"
    /\ UNCHANGED <<pureVars, config, errAtCall, counters, tmpCols, inited, history, txDst,
                   now, rt, lastOp>>

\* -------------------------------------------------------------------- Next
\* Any record, any outcome.  A failing Consume stores nothing of the
\* record, so one record stands for all of them there; a stream that is
\* not Active is offered one record, which it has to reject by itself.
ConsumeAny ==
    \E id \in Ids, vt \in DataTypes \cup {NoCol}, fail \in FailPoints, kind \in ErrorKinds :
        /\ fail = "none" => kind = "RowError"
        /\ fail # "none" => (id = 1 /\ vt = NoCol)
        /\ status # "Active" => (id = 1 /\ vt = NoCol /\ fail = "none")
        /\ Consume(id, vt, fail, kind)

Next ==
    \/ ConsumeAny
    \/ Abort
    \/ CompleteNotActive
    \/ CompleteBegin
    \/ FlushBatchFile
    \/ EnsureTable
    \/ CopyTables
    \/ RTRenameOld
    \/ RTRenameNew
    \/ RTDropOld
    \/ GetSchema
    \/ TruncateTable
    \/ PostComplete

Spec == Init /\ [][Next]_vars

\* ================================================================ Properties
\* Rows of a table that were written by this stream (n = 0 marks a row that
\* was in the destination before the stream was created).
StreamRowCount(t) == Cardinality({i \in DOMAIN t.rows : t.rows[i].n > 0})

HasColumns(t, cs) == \A c \in cs : t.cols[c] # NoCol

\* Complete was called on an Active stream and has returned.
BatchCompleted == mode = "Batch" /\ pc = "idle" /\ status = "Completed"

IsBatchCall(x) == x.op \in {"flush", "ensure", "copy"}
BatchCalls == SelectSeq(log, IsBatchCall)
BatchPlan == IF useBatchFile THEN <<"flush", "ensure", "copy">>
                             ELSE <<"ensure", "copy">>

\* C2: Complete of a Batch stream with accepted rows calls flush (when a
\* batch file is in use), then ensure, then copy, in this order; a call is
\* made only when every earlier one succeeded, and a Complete that succeeded
\* made all of them.
C2_BatchCallOrder ==
    mode = "Batch" =>
        /\ Len(BatchCalls) <= Len(BatchPlan)
        /\ \A i \in DOMAIN BatchCalls :
              /\ BatchCalls[i].op = BatchPlan[i]
              /\ (i < Len(BatchCalls)) => BatchCalls[i].res = "nil"
        /\ (BatchCalls # <<>>) => successfulRows > 0
        /\ (BatchCompleted /\ successfulRows > 0) =>
              /\ Len(BatchCalls) = Len(BatchPlan)
              /\ \A i \in DOMAIN BatchCalls : BatchCalls[i].res = "nil"

C2_Witness ==
    /\ mode = "Batch"
    /\ pc = "idle"
    /\ status = "Failed"
    /\ BatchCalls = <<[op |-> "flush", res |-> "nil"],
                      [op |-> "ensure", res |-> "EnsureError"]>>

\* C3: a stream that is not Active never becomes Active again, and a
\* Complete on it returns an error, changes nothing of the stream state and
\* makes no flush, ensure, copy, replace or truncate call.
C3_CompleteNotActive ==
    [][ (status # "Active") =>
           /\ status' # "Active"
           /\ (lastOp' = "Complete") =>
                 /\ ret' = "NotActive"
                 /\ pc' = "idle"
                 /\ streamState' = streamState
                 /\ log' = log
                 /\ db' = db
                 /\ txDst' = txDst ]_vars

C3_Witness ==
    /\ status \in {"Completed", "Failed", "Aborted"}
    /\ lastOp = "Complete"
    /\ ret = "NotActive"
    /\ pc = "idle"

\* C4: a Consume on a stream that is no longer Active fails with
\* StreamClosed and writes nothing: the batch file, the tables and the
\* pending changes of the transaction stay as they were.
C4_ConsumeAfterClose ==
    [][ (status # "Active" /\ processedRows' # processedRows) =>
           /\ ret' = "StreamClosed"
           /\ lastOp' = "Consume"
           /\ batchFile' = batchFile
           /\ db' = db
           /\ txDst' = txDst
           /\ successfulRows' = successfulRows
           /\ status' = status ]_vars

C4_Witness ==
    /\ status \in {"Completed", "Aborted"}
    /\ lastOp = "Consume"
    /\ ret = "StreamClosed"
    /\ processedRows > successfulRows

\* Complete was entered on an Active stream and has returned; no later call
\* has overwritten its result.
CompleteReturned ==
    /\ lastOp = "Complete"
    /\ pc = "idle"
    /\ errAtCall # "none"
    /\ ret # "NotActive"

\* C5 as stated: a Complete entered with last_error set returns last_error,
\* has issued no flush, ensure, copy or replace, and leaves no row of the
\* stream in the destination.
C5_AsStated ==
    (CompleteReturned /\ errAtCall # "nil") =>
        /\ ret = errAtCall
        /\ \A i \in DOMAIN log :
              log[i].op \notin {"flush", "ensure", "copy", "replace_true", "replace_false"}
        /\ tx # "committed"
        /\ StreamRowCount(db[DstName]) = 0

C5_Reached ==
    /\ CompleteReturned
    /\ mode = "Batch"
    /\ errAtCall = "RowError"
    /\ ret = "LoadError"

\* Complete of a ReplaceTable stream was entered with nothing consumed and
\* no error.
ReplaceNothingConsumed ==
    /\ mode = "ReplaceTable"
    /\ errAtCall = "nil"
    /\ successfulRows = 0

\* C6: Complete of a ReplaceTable stream that consumed nothing and has no
\* error never swaps tables; when it succeeds, an existing destination is
\* left with its columns and no rows, and a missing one is not created.
C6_EmptyReplaceTruncates ==
    ReplaceNothingConsumed =>
        /\ \A i \in DOMAIN log :
              log[i].op \notin {"flush", "replace_true", "replace_false"}
        /\ pc \notin {"flush", "replace", "replace_retry", "rt_rename", "rt_drop"}
        /\ \A t \in 0..MaxClock : ~Exists(db[DeprecatedName(t)])
        /\ (pc = "idle" /\ status = "Completed") =>
              db[DstName] = IF Exists(dst0) THEN [dst0 EXCEPT !.rows = <<>>]
                                            ELSE NoTable

C6_Witness ==
    /\ ReplaceNothingConsumed
    /\ pc = "idle"
    /\ status = "Completed"
    /\ dst0.rows # <<>>
    /\ Exists(db[DstName])
    /\ db[DstName].rows = <<>>

IsReplaceCall(x) == x.op \in {"replace_true", "replace_false"}
ReplaceCalls == SelectSeq(log, IsReplaceCall)

\* C7: Complete of a ReplaceTable stream with accepted rows calls
\* replace_table with drop_old = true first; it calls it a second time,
\* with drop_old = false, exactly when the first call returned a DropError;
\* the result of the last call is what Complete goes on with.
C7_ReplaceRetry ==
    mode = "ReplaceTable" =>
        /\ Len(ReplaceCalls) <= 2
        /\ (Len(ReplaceCalls) >= 1) => ReplaceCalls[1].op = "replace_true"
        /\ (Len(ReplaceCalls) = 2) =>
              /\ ReplaceCalls[1].res = "DropError"
              /\ ReplaceCalls[2].op = "replace_false"
        /\ (pc \in {"post", "idle"} /\ Len(ReplaceCalls) >= 1) =>
              (ReplaceCalls[1].res = "DropError" <=> Len(ReplaceCalls) = 2)
        /\ (pc = "post" /\ Len(ReplaceCalls) >= 1) =>
              err = ReplaceCalls[Len(ReplaceCalls)].res
        /\ (pc = "idle" /\ status = "Completed" /\ successfulRows > 0) =>
              Len(ReplaceCalls) >= 1

C7_Witness ==
    /\ mode = "ReplaceTable"
    /\ Len(ReplaceCalls) = 2
    /\ ReplaceCalls[1] = [op |-> "replace_true", res |-> "DropError"]
    /\ ReplaceCalls[2].op = "replace_false"

\* C8 as stated: when the first replace_table call fails in its drop step
\* only, the retry without drop, met by no fault of the database, succeeds
\* and the destination holds the replacement rows (the deprecated table may
\* remain).
C8_AsStated ==
    (/\ mode = "ReplaceTable"
     /\ pc = "post"
     /\ Len(ReplaceCalls) = 2
     /\ ReplaceCalls[1].res = "DropError"
     /\ ~rt.fault) =>
        /\ err = "nil"
        /\ Exists(db[DstName])
        /\ db[DstName].rows = batchFile.rows

C8_Reached ==
    /\ mode = "ReplaceTable"
    /\ pc = "post"
    /\ Len(ReplaceCalls) = 2
    /\ ReplaceCalls[2].res = "RenameError"
    /\ ~rt.fault
    /\ ~Exists(db[DstName])

\* C9 as stated: while MySQL.ReplaceTable runs on an existing destination,
\* the destination name always resolves to a table.
C9_AsStated ==
    (/\ mode = "ReplaceTable"
     /\ Exists(dst0)
     /\ pc \in {"replace", "rt_rename", "rt_drop"}
     /\ Len(ReplaceCalls) = 0) =>
        Exists(db[DstName])

C9_Reached ==
    /\ mode = "ReplaceTable"
    /\ pc = "rt_rename"
    /\ rt.dropOld
    /\ rt.err1 = "nil"
    /\ ~Exists(db[DstName])
    /\ Exists(db[DeprecatedName(rt.ts)])
    /\ Exists(db[TmpName])

\* The algebra of the join, over all types.
JoinLaws ==
    \A a, b \in DataTypes :
        /\ Join(a, b) = Join(b, a)
        /\ Join("UNKNOWN", a) = a
        /\ (/\ a # "UNKNOWN"
            /\ b # "UNKNOWN"
            /\ ~(a \in LatticeRows /\ b \in LatticeCols)
            /\ ~(b \in LatticeRows /\ a \in LatticeCols)) => Join(a, b) = "STRING"
        /\ \A c \in DataTypes : Join(Join(a, b), c) = Join(a, Join(b, c))

\* C10: the join of types is commutative and associative, UNKNOWN is its
\* identity, pairs absent from the table join to STRING; so the type a
\* column has in the staging table, and in a destination the stream
\* creates, is the join of the types seen for it in whatever order.
C10_JoinOrderIndependent ==
    /\ JoinLaws
    /\ tmpCols["v"] \in {NoCol, joinRev}
    /\ (tmpCols["v"] = NoCol) => joinRev = "UNKNOWN"
    /\ (/\ pc = "idle"
        /\ status = "Completed"
        /\ successfulRows > 0
        /\ dst0.cols["v"] = NoCol
        /\ "v" \in seenCols) => db[DstName].cols["v"] = joinRev

C10_Witness ==
    /\ pc = "idle"
    /\ status = "Completed"
    /\ successfulRows = 2
    /\ db[DstName].rows # <<>>
    /\ \A i \in DOMAIN db[DstName].rows : db[DstName].rows[i].n > 0
    /\ db[DstName].cols["v"] = "FLOAT64"
    /\ joinRev = "FLOAT64"

\* =================================================== Stream (autocommit) mode
\* One transaction per record, no temp table and no batch file.  The
\* destination carries a third column here, _unmapped_data, and a row is
\* [id, n, v, unmapped]: v is the value stored in column v, named by the
\* type inferred for it ("null": none), unmapped is the value kept in
\* _unmapped_data ("null": none).
UnmappedDataColumn == "_unmapped_data"
StreamCols == ColNames \cup {UnmappedDataColumn}
ValueTypes == {"INT64", "FLOAT64", "STRING", "BOOL"}
Null == "null"

NoStreamTable == [cols |-> [c \in StreamCols |-> NoCol], pk |-> {}, rows |-> <<>>]

\* The destination a stream may find: column id and a column v of some type.
StreamTables ==
    {NoStreamTable} \cup
    {[NoStreamTable EXCEPT !.cols["id"] = "INT64", !.cols["v"] = t] :
        t \in {"INT64", "FLOAT64", "STRING"}}

\* The table a record asks for: id, and v with the type inferred for it.
TableForObject(vt) ==
    [NoStreamTable EXCEPT !.cols["id"] = "INT64", !.cols["v"] = vt]

\* A value fits a column when the column type is its least common type
\* with the value's type.
Fits(vt, ct) == Join(vt, ct) = ct

\* The record's value for v cannot be stored in the existing column v.
Collides(current, object) ==
    /\ object.cols["v"] # NoCol
    /\ current.cols["v"] # NoCol
    /\ ~Fits(object.cols["v"], current.cols["v"])

\* ensure-table against the live destination: missing columns are added,
\* and _unmapped_data (JSON) when a value has to be diverted.
StreamEnsured(current, object) ==
    [current EXCEPT
        !.cols = [c \in StreamCols |->
                    IF c = UnmappedDataColumn
                    THEN (IF Collides(current, object) THEN "JSON" ELSE current.cols[c])
                    ELSE IF current.cols[c] = NoCol THEN object.cols[c]
                    ELSE current.cols[c]],
        !.pk = IF merge THEN {"id"} ELSE current.pk]

\* A slip: the colliding value is written to its column all the same.
StreamRowNoDivert(current, object, id) ==
    [id |-> id, n |-> successfulRows + 1,
     v |-> IF object.cols["v"] = NoCol THEN Null ELSE object.cols["v"],
     unmapped |-> Null]

\* The row stored for a record: a colliding value goes to _unmapped_data
\* and leaves its column null.
StreamRow(current, object, id) ==
    [id |-> id, n |-> successfulRows + 1,
     v |-> IF object.cols["v"] = NoCol \/ Collides(current, object)
           THEN Null ELSE object.cols["v"],
     unmapped |-> IF Collides(current, object) THEN object.cols["v"] ELSE Null]

\* A slip: the type mismatch of the insert is reported as the row's error.
InsertErrorOnMismatch(current, object, fail, kind) ==
    IF fail = "write" THEN kind
    ELSE IF Collides(current, object) THEN "TypeMismatch"
    ELSE "nil"

\* The error of the single-row insert: a type collision is none.
InsertError(current, object, fail, kind) ==
    IF fail = "write" THEN kind ELSE "nil"

\* Consume in Stream mode: preprocess, ensure-table, insert (merge when a
\* primary key is set), postConsume.  A failed record leaves no trace.
StreamConsume(id, vt, fail, kind) ==
    /\ mode = "Stream"
    /\ pc = "idle"
    /\ processedRows < MaxRecords
    /\ fail # "init"
    /\ LET current == db[DstName]
           object == TableForObject(vt)
           preErr == PreprocessError(fail, kind)
           e == IF preErr # "nil" THEN preErr
                ELSE InsertError(current, object, fail, kind)
           stored == [StreamEnsured(current, object) EXCEPT
                        !.rows = CopyRows(@, <<StreamRow(current, object, id)>>, merge)]
       IN  /\ db' = IF e = "nil" THEN [db EXCEPT ![DstName] = stored] ELSE db
           /\ cur' = current
           /\ inc' = object
           /\ okIds' = IF e = "nil" THEN okIds \cup {id} ELSE okIds
           /\ lastOk' = IF e = "nil" THEN [lastOk EXCEPT ![id] = successfulRows + 1]
                        ELSE lastOk
           /\ PostConsume(e)
    /\ lastOp' = "Consume"
    /\ UNCHANGED <<flattenVars, consumerVars, sidecarVars, writerVars, made, madeBy, config, inited, tx, batchFile, tmpCols,
                   joinRev, seenCols, errAtCall, txDst, txDirty, now, pc, err, rt, log>>

StreamConsumeAny ==
    \E id \in Ids, vt \in ValueTypes \cup {NoCol}, fail \in FailPoints, kind \in ErrorKinds :
        /\ fail = "none" => kind = "RowError"
        /\ fail # "none" => (id = 1 /\ vt = NoCol)
        /\ StreamConsume(id, vt, fail, kind)

\* Complete in Stream mode has nothing to flush: postComplete alone.
StreamComplete ==
    /\ mode = "Stream"
    /\ pc = "idle"
    /\ CompleteAllowed
    /\ lastOp' = "Complete"
    /\ errAtCall' = lastError
    /\ status' = IF lastError = "nil" THEN "Completed" ELSE "Failed"
    /\ ret' = lastError
    /\ UNCHANGED <<pureVars, config, lastError, counters, staging, tx, history, db,
                   txDst, txDirty, now, pc, err, rt, log>>

InitStream ==
    /\ mode = "Stream"
    /\ merge \in BOOLEAN
    /\ useBatchFile = FALSE
    /\ dst0 \in StreamTables
    /\ status = "Active"
    /\ lastError = "nil"
    /\ successfulRows = 0
    /\ processedRows = 0
    /\ inited = FALSE
    /\ tx = "none"
    /\ batchFile = NoFile
    /\ tmpCols = NoColumns
    /\ joinRev = "UNKNOWN"
    /\ okIds = {}
    /\ seenCols = {}
    /\ lastOk = [i \in Ids |-> 0]
    /\ errAtCall = "none"
    /\ db = [n \in Names |-> IF n = DstName THEN dst0 ELSE NoTable]
    /\ txDst = NoTable
    /\ txDirty = FALSE
    /\ now = 0
    /\ pc = "idle"
    /\ err = "nil"
    /\ rt = NoRT
    /\ log = <<>>
    /\ lastOp = "none"
    /\ ret = "nil"
    /\ cur = None /\ inc = None /\ made = None /\ madeBy = None
    /\ json = None /\ flat = None /\ reflat = None
    /\ sc = Unstarted.sc /\ bulkerStreams = Unstarted.bulkerStreams /\ leases = Unstarted.leases
    /\ loop = Unstarted.loop /\ ctl = Unstarted.ctl /\ failedTopic = <<>>
    /\ sidecar = NotRun.sidecar /\ procs = NotRun.procs /\ pipes = NotRun.pipes
    /\ sent = NotRun.sent /\ rwp = NoWriter.rwp /\ rwpProcs = NoWriter.rwpProcs

NextStream ==
    \/ StreamConsumeAny
    \/ StreamComplete
    \/ CompleteNotActive
    \/ Abort

SpecStream == InitStream /\ [][NextStream]_vars

\* The record consumed last collided with the column it found.
LastCollided ==
    /\ mode = "Stream"
    /\ lastOp = "Consume"
    /\ ret # "StreamClosed"
    /\ Collides(cur, inc)

BulkerManagedPkConstraintPrefix == <<"j", "i", "t", "s", "u", "_", "p", "k", "_">>

\* strings.ToLower, character by character, over the letters in use.
ToLower(str) ==
    LET UpperCase == <<"J", "I", "T", "S", "U", "P", "K", "A">>
        LowerCase == <<"j", "i", "t", "s", "u", "p", "k", "a">>
        ToLowerChar(ch) ==
            IF \E i \in DOMAIN UpperCase : UpperCase[i] = ch
            THEN LowerCase[CHOOSE i \in DOMAIN UpperCase : UpperCase[i] = ch]
            ELSE ch
    IN  [i \in DOMAIN str |-> ToLowerChar(str[i])]

\* strings.HasPrefix
HasPrefix(str, prefix) ==
    /\ Len(str) >= Len(prefix)
    /\ SubSeq(str, 1, Len(prefix)) = prefix

\* What uuid.NewLettersNumbers may return.
UuidSuffixes == {<<"a">>, <<"k", "7">>}

\* A slip: the constraint name is the bare uuid.
BuildConstraintNameUnprefixed(uuid) == uuid

BuildConstraintName(uuid) == BulkerManagedPkConstraintPrefix \o uuid

NoName == <<>>

\* Primary-key names a table may carry: none, bulker-managed, the same in
\* upper case, a user's own, and one that misses the prefix by a character.
PkNames ==
    {NoName,
     BuildConstraintName(<<"a">>),
     <<"J", "I", "T", "S", "U", "_", "P", "K", "_", "A">>,
     <<"u", "_", "p", "k">>,
     <<"j", "i", "t", "s", "u", "_", "p", "k">>}

\* Table as a schema: name, columns, primary key and its name, and the
\* DeletePkFields mark of a diff.
NoSchema(name) ==
    [name |-> name, cols |-> NoColumns, pk |-> {}, pkName |-> NoName,
     deletePk |-> FALSE]

\* Schemas with pk_fields within the columns; a primary key that has a
\* name has fields.
SchemaTables(name) ==
    {[name |-> name, cols |-> [c \in ColNames |-> IF c = "id" THEN ti ELSE tv],
      pk |-> pk, pkName |-> pn, deletePk |-> dp] :
        ti \in {NoCol, "INT64", "STRING"}, tv \in {NoCol, "STRING"},
        pk \in SUBSET ColNames, pn \in PkNames, dp \in BOOLEAN}

WellFormed(t) ==
    /\ t.pk \subseteq ColumnsOf(t)
    /\ (t.pkName # NoName) => t.pk # {}

\* A slip: every table counts as existing.
SchemaExistsAlways(t) == TRUE

\* Table.Exists
SchemaExists(t) == Exists(t) \/ t.deletePk

\* A slip: the primary key counts as bulker-managed whatever its name.
PkManagedAlways(name) == TRUE

\* The check Diff makes on the name of the current primary key: empty, or
\* lower-cased it starts with the bulker prefix.
PkManaged(name) ==
    name = NoName \/ HasPrefix(ToLower(name), BulkerManagedPkConstraintPrefix)

\* A slip: the old constraint is never marked for deletion.
PkChangeNeverDeletes(d, t, another, jitsuPrimaryKeyName) ==
    IF t.pk # another.pk
    THEN [d EXCEPT !.pk = another.pk, !.pkName = jitsuPrimaryKeyName]
    ELSE d

\* Diff, primary keys logic: re-create or delete when current has a
\* primary key and the sets differ; create when it has none.
PkChange(d, t, another, jitsuPrimaryKeyName) ==
    IF t.pk # {}
    THEN (IF t.pk # another.pk
          THEN [d EXCEPT !.deletePk = TRUE, !.pk = another.pk,
                         !.pkName = jitsuPrimaryKeyName]
          ELSE d)
    ELSE IF another.pk # {}
    THEN [d EXCEPT !.pk = another.pk, !.pkName = jitsuPrimaryKeyName]
    ELSE d

\* Table.Diff
Diff(t, another, jitsuPrimaryKeyName) ==
    IF ~SchemaExists(another) THEN NoSchema(t.name)
    ELSE IF ~PkManaged(t.pkName)
    THEN [NoSchema(t.name) EXCEPT !.cols = DiffColumns(t, another)]
    ELSE PkChange([NoSchema(t.name) EXCEPT !.cols = DiffColumns(t, another)],
                  t, another, jitsuPrimaryKeyName)

\* Table.Clone
Clone(t) ==
    [name |-> t.name, cols |-> [c \in ColNames |-> t.cols[c]], pk |-> t.pk,
     pkName |-> t.pkName, deletePk |-> t.deletePk]

\* adjustTableColumnTypes: the existing table takes the columns of the
\* object it does not have yet.
AdjustTableColumnTypes(dstTable, tableForObject) ==
    [dstTable EXCEPT !.cols =
        [c \in ColNames |-> IF dstTable.cols[c] = NoCol THEN tableForObject.cols[c]
                            ELSE dstTable.cols[c]]]

\* A slip: the object's columns with the existing table's primary key.
TmpTableSourceMixed(existingTable, tableForObject) ==
    [tableForObject EXCEPT !.pk = existingTable.pk]

\* Batch tmpTableFunc, dstTable: the existing table when there is one.
TmpTableSource(existingTable, tableForObject) ==
    IF SchemaExists(existingTable)
    THEN AdjustTableColumnTypes(existingTable, tableForObject)
    ELSE tableForObject

\* Batch tmpTableFunc
BatchTmpTable(existingTable, tableForObject, uuid) ==
    LET dstTable == TmpTableSource(existingTable, tableForObject)
    IN  [name |-> "jitsu_tmp", cols |-> dstTable.cols, pk |-> dstTable.pk,
         pkName |-> IF dstTable.pk # {} THEN BuildConstraintName(uuid) ELSE NoName,
         deletePk |-> FALSE]

\* ReplaceTable tmpTableFunc, called at second t: the name is the table
\* name, "_tmp_" and the time to the second.
SideTable(tableName, tableForObject, t) ==
    [name |-> <<tableName, "_tmp_", t>>, cols |-> tableForObject.cols, pk |-> tableForObject.pk,
     pkName |-> tableForObject.pkName, deletePk |-> FALSE]

\* MySQL.GetTableSchema of a table the database holds: no primary key is
\* looked up for a table without columns; a primary key gets a fresh name.
GetTableSchema(stored, uuid) ==
    IF ColumnsOf(stored) = {} THEN NoSchema(stored.name)
    ELSE [name |-> stored.name, cols |-> stored.cols, pk |-> stored.pk,
          pkName |-> IF stored.pk # {} THEN BuildConstraintName(uuid) ELSE NoName,
          deletePk |-> FALSE]

\* One call: its result and who made it; the arguments stay.
Built(t, by) ==
    /\ made' = t
    /\ madeBy' = by
    /\ UNCHANGED <<streamVars, flattenVars, consumerVars, sidecarVars, writerVars, cur, inc>>

DoDiff == \E u \in UuidSuffixes : Built(Diff(cur, inc, BuildConstraintName(u)), "Diff")
DoDiffSelf == \E u \in UuidSuffixes : Built(Diff(cur, cur, BuildConstraintName(u)), "DiffSelf")
DoClone == Built(Clone(cur), "Clone")
DoBatchTmpTable == \E u \in UuidSuffixes : Built(BatchTmpTable(cur, inc, u), "BatchTmpTable")
DoSideTable == \E t \in 0..MaxClock : Built(SideTable("dst", inc, t), "SideTable")
DoGetTableSchema == \E u \in UuidSuffixes : Built(GetTableSchema(cur, u), "GetTableSchema")

InitSchema ==
    /\ cur \in {t \in SchemaTables("dst") : WellFormed(t)}
    /\ inc \in {t \in SchemaTables("dst") : WellFormed(t)}
    /\ made = NoSchema("dst")
    /\ madeBy = None
    /\ json = None /\ flat = None /\ reflat = None
    /\ sc = Unstarted.sc /\ bulkerStreams = Unstarted.bulkerStreams /\ leases = Unstarted.leases
    /\ loop = Unstarted.loop /\ ctl = Unstarted.ctl /\ failedTopic = <<>>
    /\ sidecar = NotRun.sidecar /\ procs = NotRun.procs /\ pipes = NotRun.pipes
    /\ sent = NotRun.sent /\ rwp = NoWriter.rwp /\ rwpProcs = NoWriter.rwpProcs
    /\ mode = None /\ merge = FALSE /\ useBatchFile = FALSE /\ dst0 = NoTable
    /\ status = None /\ lastError = "nil" /\ successfulRows = 0 /\ processedRows = 0
    /\ inited = FALSE /\ tx = "none" /\ batchFile = NoFile /\ tmpCols = NoColumns
    /\ joinRev = "UNKNOWN" /\ okIds = {} /\ seenCols = {} /\ errAtCall = "none"
    /\ lastOk = [i \in Ids |-> 0]
    /\ db = [n \in Names |-> NoTable]
    /\ txDst = NoTable /\ txDirty = FALSE /\ now = 0 /\ pc = "idle" /\ err = "nil"
    /\ rt = NoRT /\ log = <<>> /\ lastOp = "none" /\ ret = "nil"

NextSchema ==
    \/ DoDiff
    \/ DoDiffSelf
    \/ DoClone
    \/ DoBatchTmpTable
    \/ DoSideTable
    \/ DoGetTableSchema

SpecSchema == InitSchema /\ [][NextSchema]_vars

PkChanged(d) == d.deletePk \/ d.pk # {}

\* C12: for an existing incoming table the columns of Diff(current,
\* incoming) are exactly the incoming columns whose name current lacks,
\* with incoming's definition; a column both have is never in the diff,
\* whatever its types; current's and the diff's columns cover incoming's.
C12_DiffColumns ==
    (madeBy = "Diff" /\ SchemaExists(inc)) =>
        /\ \A c \in ColNames :
              made.cols[c] = IF cur.cols[c] = NoCol THEN inc.cols[c] ELSE NoCol
        /\ ColumnsOf(inc) \subseteq ColumnsOf(cur) \cup ColumnsOf(made)

C12_Witness ==
    /\ madeBy = "Diff"
    /\ cur.cols["id"] = "INT64"
    /\ inc.cols["id"] = "STRING"
    /\ cur.cols["v"] = NoCol
    /\ inc.cols["v"] = "STRING"
    /\ made.cols["id"] = NoCol
    /\ made.cols["v"] = "STRING"

\* A table that is not there: no columns, no primary key, no mark.
Absent(t) == ColumnsOf(t) = {} /\ t.pk = {} /\ ~t.deletePk

\* C13: Diff(A, A) adds no columns and changes no primary key (no columns,
\* no pk_fields, delete_pk_fields false), and so does Diff(A, B) for a B
\* that does not exist.
C13_DiffEmpty ==
    /\ (madeBy = "DiffSelf") => made = NoSchema(cur.name)
    /\ (madeBy = "Diff" /\ Absent(inc)) => made = NoSchema(cur.name)

C13_Witness ==
    /\ madeBy = "Diff"
    /\ Absent(inc)
    /\ cur.pk = {"id"}
    /\ cur.cols["v"] = "STRING"
    /\ HasPrefix(cur.pkName, BulkerManagedPkConstraintPrefix)
    /\ made = NoSchema(cur.name)

C13_SelfReached ==
    /\ madeBy = "DiffSelf"
    /\ cur.pk = {"id"}
    /\ cur.cols["v"] = "STRING"
    /\ HasPrefix(cur.pkName, BulkerManagedPkConstraintPrefix)
    /\ made = NoSchema(cur.name)

\* C14 as stated: Diff emits a primary-key change only when the name of
\* the current primary key starts with jitsu_pk_.
C14_AsStated ==
    (madeBy = "Diff" /\ PkChanged(made)) =>
        HasPrefix(cur.pkName, BulkerManagedPkConstraintPrefix)

\* C14: Diff emits a primary-key change only when the name of the current
\* primary key is empty or starts, letter case aside, with jitsu_pk_; for
\* any other name the diff carries no primary key, whatever incoming has.
C14_PkChangeOnlyManaged ==
    (madeBy = "Diff") =>
        /\ PkChanged(made) =>
              \/ cur.pkName = NoName
              \/ HasPrefix(ToLower(cur.pkName), BulkerManagedPkConstraintPrefix)
        /\ (/\ cur.pkName # NoName
            /\ ~HasPrefix(ToLower(cur.pkName), BulkerManagedPkConstraintPrefix)) =>
              /\ ~made.deletePk
              /\ made.pk = {}
              /\ made.pkName = NoName

C14_Witness ==
    /\ madeBy = "Diff"
    /\ cur.pkName = <<"u", "_", "p", "k">>
    /\ cur.pk = {"id"}
    /\ inc.pk = {"v"}
    /\ ~PkChanged(made)

\* C15 as stated: the current primary key is reconfigurable and the sets
\* differ, so delete_pk_fields is set and pk_fields is the incoming set.
C15_AsStated ==
    (madeBy = "Diff" /\ PkManaged(cur.pkName) /\ cur.pk # inc.pk) =>
        /\ made.deletePk
        /\ made.pk = inc.pk

\* C15: when the current primary key is reconfigurable, incoming exists and
\* the primary-key sets differ, Diff emits the incoming set as pk_fields,
\* and sets delete_pk_fields exactly when current has primary-key fields.
C15_PkReconfigured ==
    (/\ madeBy = "Diff"
     /\ SchemaExists(inc)
     /\ (cur.pkName = NoName
         \/ HasPrefix(ToLower(cur.pkName), BulkerManagedPkConstraintPrefix))
     /\ cur.pk # inc.pk) =>
        /\ made.pk = inc.pk
        /\ made.deletePk = (cur.pk # {})

C15_Witness ==
    /\ madeBy = "Diff"
    /\ HasPrefix(cur.pkName, BulkerManagedPkConstraintPrefix)
    /\ cur.pk = {"id"}
    /\ inc.pk = {"id", "v"}
    /\ made.deletePk
    /\ made.pk = {"id", "v"}

\* C16 as stated: a pk_name that does not start with jitsu_pk_ is preserved,
\* Diff emits no new name for it.
C16_AsStated ==
    (/\ madeBy = "Diff"
     /\ cur.pkName # NoName
     /\ ~HasPrefix(cur.pkName, BulkerManagedPkConstraintPrefix)) =>
        made.pkName = NoName

\* C16: the name a diff carries is empty exactly when it changes no
\* primary key; it is then never the current one but a new bulker-managed
\* name, and a current name that, letter case aside, does not start with
\* jitsu_pk_ is left alone; every
\* non-empty name made by Diff, by the Batch temp table and by MySQL
\* GetTableSchema starts with jitsu_pk_, so that Diff takes it as managed.
C16_ManagedNames ==
    /\ (madeBy = "Diff") =>
          /\ (made.pkName # NoName) <=> PkChanged(made)
          /\ (made.pkName # NoName) =>
                \E u \in UuidSuffixes : made.pkName = BulkerManagedPkConstraintPrefix \o u
          /\ (cur.pkName # NoName
              /\ ~HasPrefix(ToLower(cur.pkName), BulkerManagedPkConstraintPrefix)) =>
                made.pkName = NoName
    /\ (madeBy \in {"Diff", "DiffSelf", "BatchTmpTable", "GetTableSchema"}
        /\ made.pkName # NoName) =>
          /\ HasPrefix(made.pkName, BulkerManagedPkConstraintPrefix)
          /\ PkManaged(made.pkName)

C16_Witness ==
    /\ madeBy = "Diff"
    /\ HasPrefix(cur.pkName, BulkerManagedPkConstraintPrefix)
    /\ made.pkName # NoName
    /\ made.pkName # cur.pkName
    /\ HasPrefix(made.pkName, BulkerManagedPkConstraintPrefix)

Constructors == {"Diff", "BatchTmpTable", "SideTable", "Clone"}

\* C17 as stated: every table built from tables with pk_fields within
\* their columns has pk_fields within its columns.
C17_AsStated ==
    (madeBy \in Constructors) => made.pk \subseteq ColumnsOf(made)

\* C17: the Batch temp table, the ReplaceTable side table and a clone have
\* pk_fields within their columns; a diff has them within its own columns
\* together with those of the table it is a diff to.
C17_PkWithinColumns ==
    /\ (madeBy \in Constructors \ {"Diff"}) => made.pk \subseteq ColumnsOf(made)
    /\ (madeBy = "Diff") => made.pk \subseteq ColumnsOf(made) \cup ColumnsOf(cur)

C17_Witness ==
    /\ madeBy = "BatchTmpTable"
    /\ SchemaExists(cur)
    /\ cur.pk = {"id"}
    /\ inc.pk = {}
    /\ inc.cols["v"] = "STRING"
    /\ cur.cols["v"] = NoCol
    /\ made.pk = {"id"}
    /\ ColumnsOf(made) = {"id", "v"}

\* Rows of the destination with primary-key value id.
RowsWithKey(id) ==
    {i \in DOMAIN db[DstName].rows : db[DstName].rows[i].id = id}

MaxKeys == 2

SqlTypeKeyword == <<"_", "_", "s", "q", "l", "_", "t", "y", "p", "e">>
UnnamedKey == <<"_", "u", "n", "n", "a", "m", "e", "d">>

\* strings.Contains
Contains(str, sub) ==
    \E i \in 0..(Len(str) - Len(sub)) : SubSeq(str, i + 1, i + Len(sub)) = sub

Leaf(kind, text) == [kind |-> kind, v |-> text]
MapValue(m) == [kind |-> "map", v |-> m]

\* Go maps over the given keys with at most n entries.
MapsOver(keys, values, n) ==
    UNION {[ks -> values] : ks \in {x \in SUBSET keys : Cardinality(x) <= n}}

\* Records decoded from JSON: at most MaxKeys keys, objects nested once.
\* The keys: empty, plain, with a character outside [A-Za-z0-9_], the meta
\* key, and the path a nested a.a flattens to.
Records ==
    LET TopKeys == {<<>>, <<"a">>, <<"$", "a">>, SqlTypeKeyword, <<"a", "_", "a">>}
        InnerKeys == {<<>>, <<"a">>}
        TopLeaves == {Leaf("int", "1"), Leaf("string", "x"), Leaf("bool", "true"),
                      Leaf("nil", ""), Leaf("slice", "[1,2]")}
        InnerLeaves == {Leaf("int", "2"), Leaf("nil", ""), Leaf("slice", "[1,2]")}
    IN  MapsOver(TopKeys,
                 TopLeaves \cup {MapValue(m) : m \in MapsOver(InnerKeys, InnerLeaves, 2)},
                 MaxKeys)

\* A slip: nil values are kept.
omitNilValuesOff == FALSE

\* NewFlattener
omitNilValues == TRUE

\* destination[key] = value
Put(destination, key, value) ==
    [k \in DOMAIN destination \cup {key} |-> IF k = key THEN value ELSE destination[k]]

\* jsoniter.Marshal of a slice, as a string value.
Marshal(value) == Leaf("string", value.v)

\* A slip: the key of the parent is joined even when it is empty.
NewKeyAlwaysJoined(key, k) == key \o <<"_">> \o k

\* flatten, the key of an entry of a nested object
NewKey(key, k) == IF key # <<>> THEN key \o <<"_">> \o k ELSE k

\* flatten(key, value, destination): the destinations it may leave. A Go
\* map is ranged over in any order, so entries that come to the same key
\* may overwrite each other either way.
RECURSIVE flatten(_, _, _)
RECURSIVE flattenRange(_, _, _)
flatten(key, value, destination) ==
    CASE value.kind = "slice" ->
            IF Contains(key, SqlTypeKeyword)
            THEN {Put(destination, key, value)}
            ELSE {Put(destination, key, Marshal(value))}
      [] value.kind = "map" -> flattenRange(key, value.v, destination)
      [] value.kind = "bool" -> {Put(destination, key, value)}
      [] OTHER ->
            IF ~omitNilValues \/ value.kind # "nil"
            THEN {Put(destination, key, value)}
            ELSE {destination}

\* for k, v := range unboxed
flattenRange(key, unboxed, destination) ==
    IF DOMAIN unboxed = {} THEN {destination}
    ELSE UNION {
            UNION {flattenRange(key, [x \in DOMAIN unboxed \ {k} |-> unboxed[x]], d) :
                      d \in flatten(NewKey(key, k), unboxed[k], destination)} :
            k \in DOMAIN unboxed}

\* The empty Go map.
NoEntries == [k \in {} |-> Leaf("nil", "")]

\* FlattenObject, the move of the empty key to _unnamed.
MoveEmptyKey(flattenMap) ==
    IF <<>> \in DOMAIN flattenMap
    THEN [k \in (DOMAIN flattenMap \ {<<>>}) \cup {UnnamedKey} |->
            IF k = UnnamedKey THEN flattenMap[<<>>] ELSE flattenMap[k]]
    ELSE flattenMap

\* FlattenerImpl.FlattenObject: the maps it may return.
FlattenObject(object) ==
    {MoveEmptyKey(d) : d \in flatten(<<>>, MapValue(object), NoEntries)}

\* What a call has returned, if it was made.
NotCalled == [done |-> FALSE, out |-> NoEntries]
Returned(m) == [done |-> TRUE, out |-> m]

\* FlattenObject is called with the record.
DoFlatten ==
    /\ ~flat.done
    /\ \E m \in FlattenObject(json) : flat' = Returned(m)
    /\ UNCHANGED <<streamVars, schemaVars, consumerVars, sidecarVars, writerVars, json, reflat>>

\* FlattenObject is called with what it returned.
DoFlattenAgain ==
    /\ flat.done
    /\ ~reflat.done
    /\ \E m \in FlattenObject(flat.out) : reflat' = Returned(m)
    /\ UNCHANGED <<streamVars, schemaVars, consumerVars, sidecarVars, writerVars, json, flat>>

InitFlatten ==
    /\ json \in Records
    /\ flat = NotCalled
    /\ reflat = NotCalled
    /\ sc = Unstarted.sc /\ bulkerStreams = Unstarted.bulkerStreams /\ leases = Unstarted.leases
    /\ loop = Unstarted.loop /\ ctl = Unstarted.ctl /\ failedTopic = <<>>
    /\ sidecar = NotRun.sidecar /\ procs = NotRun.procs /\ pipes = NotRun.pipes
    /\ sent = NotRun.sent /\ rwp = NoWriter.rwp /\ rwpProcs = NoWriter.rwpProcs
    /\ cur = None /\ inc = None /\ made = None /\ madeBy = None
    /\ mode = None /\ merge = FALSE /\ useBatchFile = FALSE /\ dst0 = NoTable
    /\ status = None /\ lastError = "nil" /\ successfulRows = 0 /\ processedRows = 0
    /\ inited = FALSE /\ tx = "none" /\ batchFile = NoFile /\ tmpCols = NoColumns
    /\ joinRev = "UNKNOWN" /\ okIds = {} /\ seenCols = {} /\ errAtCall = "none"
    /\ lastOk = [i \in Ids |-> 0]
    /\ db = [n \in Names |-> NoTable]
    /\ txDst = NoTable /\ txDirty = FALSE /\ now = 0 /\ pc = "idle" /\ err = "nil"
    /\ rt = NoRT /\ log = <<>> /\ lastOp = "none" /\ ret = "nil"

NextFlatten ==
    \/ DoFlatten
    \/ DoFlattenAgain

SpecFlatten == InitFlatten /\ [][NextFlatten]_vars

\* C19: flattening what the flattener returned returns it unchanged,
\* flatten(flatten(r)) = flatten(r), whatever the order the maps are
\* ranged over.
C19_FlattenIdempotent ==
    reflat.done => reflat.out = flat.out

C19_Witness ==
    /\ reflat.done
    /\ <<"a">> \in DOMAIN json
    /\ json[<<"a">>].kind = "map"
    /\ <<"a", "_", "a">> \in DOMAIN json
    /\ json[<<"a", "_", "a">>].kind = "slice"
    /\ DOMAIN flat.out = {<<"a", "_", "a">>}
    /\ flat.out[<<"a", "_", "a">>] = Leaf("int", "2")
    /\ reflat.out = flat.out

\* Characters of [A-Za-z0-9_] among those keys are made of.
SafeChars == {"a", "s", "q", "l", "t", "y", "p", "e", "u", "n", "m", "d", "_"}

\* C20 as stated: every key FlattenObject returns is made of characters of
\* [A-Za-z0-9_] only, and none is empty.
C20_AsStated ==
    flat.done =>
        \A k \in DOMAIN flat.out :
            /\ k # <<>>
            /\ \A i \in DOMAIN k : k[i] \in SafeChars

\* FlattenObject returned {"$a": 1} for {"$a": 1}.
C20_Reached ==
    /\ flat.done
    /\ DOMAIN json = {<<"$", "a">>}
    /\ json[<<"$", "a">>] = Leaf("int", "1")
    /\ flat.out = json

\* C21 as stated: FlattenObject never keeps one of two values that come to
\* the same key and drops the other; what it returns is determined by the
\* record.
C21_AsStated ==
    flat.done => FlattenObject(json) = {flat.out}

\* FlattenObject returned {"a_a": 2} for {"a": {"a": 2}, "a_a": 1}: no
\* error, the value 1 is gone.
C21_Reached ==
    /\ flat.done
    /\ DOMAIN json = {<<"a">>, <<"a", "_", "a">>}
    /\ json[<<"a">>] = MapValue([k \in {<<"a">>} |-> Leaf("int", "2")])
    /\ json[<<"a", "_", "a">>] = Leaf("int", "1")
    /\ flat.out = [k \in {<<"a", "_", "a">>} |-> Leaf("int", "2")]
    /\ Cardinality(FlattenObject(json)) = 2

\* The key an entry written under path p is returned under.
OutKey(p) == IF p = <<>> THEN UnnamedKey ELSE p

\* What flatten stores for a slice under path p.
SliceStored(p, value) ==
    IF Contains(p, SqlTypeKeyword) THEN value ELSE Leaf("string", value.v)

\* The paths of a record with the values found there, nested objects
\* followed once.
PathValues(object) ==
    {<<k, object[k]>> : k \in DOMAIN object}
    \cup UNION {{<<(IF k = <<>> THEN ik ELSE k \o <<"_">> \o ik), object[k].v[ik]>> :
                    ik \in DOMAIN object[k].v} :
                k \in {x \in DOMAIN object : object[x].kind = "map"}}

\* C22: no value FlattenObject returns is a mapping or nil, and a slice is
\* returned only under a key with the SQL-type marker; where the order of
\* iteration decides nothing, a slice of the record is found under its
\* '_'-joined path as its JSON string, or untouched when the path contains
\* the marker, and a path with a nil value is not returned unless another
\* path comes to the same key.
C22_FlattenShape ==
    flat.done =>
        /\ \A k \in DOMAIN flat.out :
              /\ flat.out[k].kind \notin {"map", "nil"}
              /\ (flat.out[k].kind = "slice") => Contains(k, SqlTypeKeyword)
        /\ (FlattenObject(json) = {flat.out}) =>
              \A pv \in PathValues(json) :
                  /\ (pv[2].kind = "slice") =>
                        /\ OutKey(pv[1]) \in DOMAIN flat.out
                        /\ flat.out[OutKey(pv[1])] = SliceStored(pv[1], pv[2])
                  /\ (/\ pv[2].kind = "nil"
                      /\ \A qv \in PathValues(json) :
                            (qv[1] = pv[1]) => qv[2].kind \in {"nil", "map"}) =>
                        OutKey(pv[1]) \notin DOMAIN flat.out

C22_Witness ==
    /\ flat.done
    /\ DOMAIN json = {SqlTypeKeyword, <<"a">>}
    /\ json[SqlTypeKeyword] = Leaf("slice", "[1,2]")
    /\ json[<<"a">>] =
          MapValue([k \in {<<>>, <<"a">>} |->
                       IF k = <<>> THEN Leaf("nil", "") ELSE Leaf("slice", "[1,2]")])
    /\ flat.out = [k \in {SqlTypeKeyword, <<"a", "_", "a">>} |->
                      IF k = SqlTypeKeyword THEN Leaf("slice", "[1,2]")
                      ELSE Leaf("string", "[1,2]")]


\* C30: once Complete has run to its end on an active Batch or ReplaceTable
\* stream (Completed, or Failed at whichever step), or Abort has ended it,
\* the temp / side table does not exist and the batch file is gone.
C30_StagingReleased ==
    (/\ pc = "idle"
     /\ \/ status \in {"Completed", "Aborted"}
        \/ status = "Failed" /\ errAtCall # "none")
    => /\ ~Exists(db[TmpName])
       /\ batchFile = NoFile

\* Complete failed while loading the batch file, which held a row, and the
\* file and the temp table are gone.
C30_Witness ==
    /\ pc = "idle"
    /\ status = "Failed"
    /\ useBatchFile
    /\ successfulRows > 0
    /\ \E i \in DOMAIN log : log[i].op = "flush" /\ log[i].res # "nil"
    /\ ~Exists(db[TmpName])
    /\ batchFile = NoFile

\* Abort ended a stream that had inserted a row into its temp table.
C30_AbortReached ==
    /\ status = "Aborted"
    /\ ~useBatchFile
    /\ successfulRows > 0
    /\ ~Exists(db[TmpName])

\* ============================================== SQL types and MySQL adapter
\* A call of a function of the adapter layer: receiver, argument, result.
\* The functions keep no state between calls, so a behaviour is one call.
Called(receiver, argument, result) ==
    /\ madeBy = None
    /\ cur' = receiver
    /\ inc' = argument
    /\ made' = result
    /\ UNCHANGED <<streamVars, flattenVars, consumerVars, sidecarVars, writerVars>>

SQLColumn(type, ddlType, override) ==
    [type |-> type, ddlType |-> ddlType, override |-> override]

\* SQLTypes built by With / WithDDL over the column names a and b.
HintTypes ==
    LET cols == {SQLColumn("BIGINT", "BIGINT", TRUE), SQLColumn("TEXT", "VARCHAR(255)", TRUE)}
    IN  UNION {[ns -> cols] : ns \in SUBSET {"a", "b"}}

\* A slip: the ddl type is stored as given, empty or not.
WithDDLNoDefault(s, name, sqlType, ddlType) ==
    IF sqlType = "" THEN s
    ELSE [n \in DOMAIN s \cup {name} |->
            IF n = name THEN SQLColumn(sqlType, ddlType, TRUE) ELSE s[n]]

\* SQLTypes.WithDDL; With(name, sqlType) is WithDDL(name, sqlType, "").
WithDDL(s, name, sqlType, ddlType) ==
    IF sqlType = "" THEN s
    ELSE IF ddlType = ""
    THEN [n \in DOMAIN s \cup {name} |->
            IF n = name THEN SQLColumn(sqlType, sqlType, TRUE) ELSE s[n]]
    ELSE [n \in DOMAIN s \cup {name} |->
            IF n = name THEN SQLColumn(sqlType, ddlType, TRUE) ELSE s[n]]

\* SQLColumn.GetDDLType
GetDDLType(c) == IF c.ddlType # "" THEN c.ddlType ELSE c.type

\* preprocess, apply hints: a column of the record that the hints name is
\* the hinted column, any other one is as inferred.
ApplyHints(inferred, hints) ==
    [n \in DOMAIN inferred |-> IF n \in DOMAIN hints THEN hints[n] ELSE inferred[n]]

\* Lines of a batch file given to LoadTable.
MaxLines == 2

\* A slip: a refused SET GLOBAL local_infile is not noticed.
NewMySQLAlwaysInfile(connect, localInfile, allowOk) ==
    IF connect # "ok" THEN [err |-> connect]
    ELSE [err |-> "nil", infileEnabled |-> TRUE, batchFileFormat |-> "CSV"]

\* NewMySQL: connect is what sql.Open / Ping gave, localInfile the value
\* SHOW GLOBAL VARIABLES returned ("error" when it returned none), allowOk
\* whether SET GLOBAL local_infile = 1 succeeds when it is issued.
NewMySQL(connect, localInfile, allowOk) ==
    IF connect # "ok" THEN [err |-> connect]
    ELSE LET detected == localInfile = "ON"
             infileEnabled == IF ~detected THEN allowOk ELSE TRUE
         IN  [err |-> "nil", infileEnabled |-> infileEnabled,
              batchFileFormat |-> IF infileEnabled THEN "CSV" ELSE "JSON"]

\* MySQL.LoadTable. A line of the file is "ok", "undecodable", "rejected"
\* (its insert fails) or "toolong" (the scanner stops at it); fault names
\* the call that fails, if one does. The result: the error, the way of
\* loading, the lines inserted, and what was acquired and is still open
\* when the call returns.
LoadTable(m, loadSource, fault) ==
    LET lines == loadSource.lines
        Result(e, via, n, open) ==
            [err |-> e, via |-> via, inserted |-> [i \in 1..n |-> i], open |-> open]
        stops == {i \in DOMAIN lines : lines[i] # "ok"}
        first == IF stops = {} THEN Len(lines) + 1
                 ELSE CHOOSE i \in stops : \A j \in stops : i <= j
    IN  IF loadSource.type # "LocalFile" THEN Result("NotLocalFile", "none", 0, {})
        ELSE IF loadSource.format # m.batchFileFormat
        THEN Result("WrongFormat", "none", 0, {})
        ELSE IF m.infileEnabled
        THEN \* RegisterLocalFile, deferred DeregisterLocalFile, one statement
             IF fault = "exec" THEN Result("LoadError", "infile", 0, {})
             ELSE Result("nil", "infile", Len(lines), {})
        ELSE IF fault = "template" THEN Result("ExecuteInsertError", "prepared", 0, {})
        ELSE IF fault = "prepare" THEN Result("LoadError", "prepared", 0, {})
        \* stmt is closed by a deferred call; the file is opened and not closed
        ELSE IF fault = "open" THEN Result("LoadError", "prepared", 0, {"stmt"} \ {"stmt"})
        ELSE IF first > Len(lines) \/ lines[first] = "toolong"
        THEN Result("nil", "prepared", first - 1, {"stmt", "file"} \ {"stmt"})
        ELSE Result("LoadError", "prepared", first - 1, {"stmt", "file"} \ {"stmt"})

\* MySQL.getTable: the context and the rows are released by deferred calls.
getTable(fault) ==
    LET acquired == IF fault = "query" THEN {"ctx"} ELSE {"ctx", "rows"}
    IN  [err |-> IF fault = "none" THEN "nil" ELSE "GetTableError",
         open |-> acquired \ (IF fault = "query" THEN {"ctx"} ELSE {"ctx", "rows"})]

\* A slip: the primary-key mapping is applied to every column.
mySQLColumnDDLAnyColumn(name, quotedName, column, pkFields) ==
    <<quotedName, IF GetDDLType(column) = "TEXT" THEN "VARCHAR(255)" ELSE GetDDLType(column)>>

\* mySQLColumnDDL with mySQLPrimaryKeyTypesMapping
mySQLColumnDDL(name, quotedName, column, pkFields) ==
    LET mySQLPrimaryKeyTypesMapping == [t \in {"TEXT"} |-> "VARCHAR(255)"]
        sqlType == GetDDLType(column)
    IN  <<quotedName,
          IF name \in pkFields /\ sqlType \in DOMAIN mySQLPrimaryKeyTypesMapping
          THEN mySQLPrimaryKeyTypesMapping[sqlType]
          ELSE sqlType>>

\* Batch files of at most MaxLines lines, as a load source.
LoadSources ==
    [type : {"LocalFile", "S3"}, format : {"CSV", "JSON"},
     lines : UNION {[1..n -> {"ok", "undecodable", "rejected", "toolong"}] : n \in 0..MaxLines}]

\* MySQL.ReplaceTable as one call on database d at second t: the target is
\* DstName, the replacement TmpName; faults names the statements the
\* database refuses (the existence probe, either rename, the drop).  The
\* result: err1, the second rename's err, whether DropTable was issued,
\* the error returned and the database left behind.
ReplaceTable(d, dropOldTable, t, faults) ==
    LET tmpTable == DeprecatedName(t)
        present == ~faults.probe /\ Exists(d[DstName])
        err1 == IF faults.probe THEN "RenameError"
                ELSE IF ~present THEN "nil"
                ELSE IF faults.rename1 \/ RenameFails(d, DstName, tmpTable)
                THEN "RenameError" ELSE "nil"
        d1 == IF present /\ err1 = "nil" THEN Renamed(d, DstName, tmpTable) ELSE d
        e == IF faults.rename2 \/ RenameFails(d1, TmpName, DstName)
             THEN "RenameError" ELSE "nil"
        d2 == IF e = "nil" THEN Renamed(d1, TmpName, DstName) ELSE d1
        drop == DropWanted(dropOldTable, err1, e)
    IN  [err1 |-> err1, err2 |-> e, drop |-> drop,
         err |-> IF drop THEN (IF faults.drop THEN "DropError" ELSE "nil") ELSE e,
         db |-> IF drop /\ ~faults.drop THEN [d2 EXCEPT ![tmpTable] = NoTable] ELSE d2]

\* Databases ReplaceTable may meet: the target there or not, the
\* replacement there or not, deprecated names free or taken.
ReplaceTableInputs ==
    {d \in [Names -> {NoTable, OldTable,
                      [OldTable EXCEPT !.rows = <<[id |-> 2, n |-> 1]>>],
                      [OldTable EXCEPT !.rows = <<>>]}] :
        /\ d[DstName] \in {NoTable, OldTable}
        /\ d[TmpName] \in {NoTable, [OldTable EXCEPT !.rows = <<[id |-> 2, n |-> 1]>>]}
        /\ \A t \in 0..MaxClock :
              d[DeprecatedName(t)] \in {NoTable, [OldTable EXCEPT !.rows = <<>>]}}

InitAdapter ==
    /\ cur = None /\ inc = None /\ made = None /\ madeBy = None
    /\ json = None /\ flat = None /\ reflat = None
    /\ sc = Unstarted.sc /\ bulkerStreams = Unstarted.bulkerStreams /\ leases = Unstarted.leases
    /\ loop = Unstarted.loop /\ ctl = Unstarted.ctl /\ failedTopic = <<>>
    /\ sidecar = NotRun.sidecar /\ procs = NotRun.procs /\ pipes = NotRun.pipes
    /\ sent = NotRun.sent /\ rwp = NoWriter.rwp /\ rwpProcs = NoWriter.rwpProcs
    /\ mode = None /\ merge = FALSE /\ useBatchFile = FALSE /\ dst0 = NoTable
    /\ status = None /\ lastError = "nil" /\ successfulRows = 0 /\ processedRows = 0
    /\ inited = FALSE /\ tx = "none" /\ batchFile = NoFile /\ tmpCols = NoColumns
    /\ joinRev = "UNKNOWN" /\ okIds = {} /\ seenCols = {} /\ errAtCall = "none"
    /\ lastOk = [i \in Ids |-> 0]
    /\ db = [n \in Names |-> NoTable]
    /\ txDst = NoTable /\ txDirty = FALSE /\ now = 0 /\ pc = "idle" /\ err = "nil"
    /\ rt = NoRT /\ log = <<>> /\ lastOp = "none" /\ ret = "nil"

NextAdapter ==
    \/ \E s \in HintTypes, name \in {"a", "b"}, sqlType \in {"", "DOUBLE"},
          ddlType \in {"", "FLOAT8"} :
          /\ madeBy' = "WithDDL"
          /\ Called(s, <<name, sqlType, ddlType>>, WithDDL(s, name, sqlType, ddlType))
    \/ \E hints \in HintTypes, m \in {"Stream", "Batch", "ReplaceTable", "ReplacePartition"},
          ns \in SUBSET {"a", "b"}, t \in {"TEXT", "BIGINT"} :
          /\ madeBy' = "preprocess"
          /\ Called(hints, <<m, [n \in ns |-> SQLColumn(t, "", FALSE)]>>,
                    ApplyHints([n \in ns |-> SQLColumn(t, "", FALSE)], hints))
    \/ \E connect \in {"ok", "open", "ping"}, localInfile \in {"ON", "OFF", "error"},
          allowOk \in BOOLEAN :
          /\ madeBy' = "NewMySQL"
          /\ Called(None, [connect |-> connect, localInfile |-> localInfile,
                           allowOk |-> allowOk],
                    NewMySQL(connect, localInfile, allowOk))
    \/ \E localInfile \in {"ON", "OFF", "error"}, allowOk \in BOOLEAN,
          loadSource \in LoadSources,
          fault \in {"none", "exec", "template", "prepare", "open"} :
          /\ madeBy' = "LoadTable"
          /\ Called(NewMySQL("ok", localInfile, allowOk), loadSource,
                    LoadTable(NewMySQL("ok", localInfile, allowOk), loadSource, fault))
    \/ \E fault \in {"none", "query", "scan", "rows"} :
          /\ madeBy' = "getTable"
          /\ Called(None, fault, getTable(fault))
    \/ \E name \in {"a", "b"}, pkFields \in SUBSET {"a", "b"},
          type \in {"TEXT", "text", "BIGINT"}, ddlType \in {"", "TEXT", "VARCHAR(255)"} :
          /\ madeBy' = "mySQLColumnDDL"
          /\ Called(None, [name |-> name, column |-> SQLColumn(type, ddlType, FALSE),
                           pkFields |-> pkFields],
                    mySQLColumnDDL(name, <<"quoted", name>>,
                                   SQLColumn(type, ddlType, FALSE), pkFields))
    \/ \E d \in ReplaceTableInputs, dropOldTable \in BOOLEAN, t \in 0..MaxClock,
          faults \in [probe : BOOLEAN, rename1 : BOOLEAN, rename2 : BOOLEAN,
                      drop : BOOLEAN] :
          /\ madeBy' = "ReplaceTable"
          /\ Called(d, [dropOldTable |-> dropOldTable, t |-> t, faults |-> faults],
                    ReplaceTable(d, dropOldTable, t, faults))
    \/ \E t1 \in 0..MaxClock, t2 \in 0..MaxClock,
          pk1 \in SUBSET {"id"}, pk2 \in SUBSET {"id"} :
          /\ madeBy' = "tmpTableFunc"
          /\ Called("dst", <<t1, t2>>,
                    <<SideTable("dst", [NoSchema("dst") EXCEPT !.cols["id"] = "INT64",
                                                               !.pk = pk1], t1),
                      SideTable("dst", [NoSchema("dst") EXCEPT !.cols["id"] = "STRING",
                                                               !.pk = pk2], t2)>>)

SpecAdapter == InitAdapter /\ [][NextAdapter]_vars

C23_WithReached ==
    /\ madeBy = "WithDDL"
    /\ inc = <<"a", "DOUBLE", "">>
    /\ DOMAIN cur = {"a", "b"}
    /\ made["a"] = SQLColumn("DOUBLE", "DOUBLE", TRUE)

\* C24: the adapter's batch-file format is CSV exactly when local_infile is
\* enabled (found ON, or switched on with success), else JSON lines;
\* LoadTable refuses, with nothing loaded, a source that is not a local file
\* or has another format than the adapter's, and otherwise loads with LOAD
\* DATA LOCAL INFILE exactly when local_infile is enabled, with prepared
\* inserts when it is not.
C24_InfileAndFormat ==
    /\ (madeBy = "NewMySQL" /\ made.err = "nil") =>
          /\ made.infileEnabled <=> (inc.localInfile = "ON" \/ inc.allowOk)
          /\ made.batchFileFormat = IF made.infileEnabled THEN "CSV" ELSE "JSON"
    /\ (madeBy = "LoadTable") =>
          /\ (cur.batchFileFormat = "CSV") <=> cur.infileEnabled
          /\ IF inc.type # "LocalFile" \/ inc.format # cur.batchFileFormat
             THEN made.err # "nil" /\ made.via = "none" /\ made.inserted = <<>>
             ELSE made.via = IF cur.infileEnabled THEN "infile" ELSE "prepared"

C24_Witness ==
    /\ madeBy = "LoadTable"
    /\ ~cur.infileEnabled
    /\ inc.type = "LocalFile"
    /\ inc.format = "JSON"
    /\ inc.lines = <<"ok", "ok">>
    /\ made.err = "nil"
    /\ made.via = "prepared"
    /\ made.inserted = <<1, 2>>

\* C25: mySQLColumnDDL gives a column another type than its DDL type (the
\* ddl type when set, else the sql type) exactly when it is a primary-key
\* field and that type is TEXT, and the type is then VARCHAR(255).
C25_PkTextIsVarchar ==
    (madeBy = "mySQLColumnDDL") =>
        LET ddl == IF inc.column.ddlType # "" THEN inc.column.ddlType ELSE inc.column.type
            pkText == inc.name \in inc.pkFields /\ ddl = "TEXT"
        IN  /\ made[2] = IF pkText THEN "VARCHAR(255)" ELSE ddl
            /\ (made[2] # ddl) <=> pkText

C25_Witness ==
    /\ madeBy = "mySQLColumnDDL"
    /\ inc.name = "a"
    /\ inc.pkFields = {"a"}
    /\ inc.column.type = "BIGINT"
    /\ inc.column.ddlType = "TEXT"
    /\ made[2] = "VARCHAR(255)"

\* C26 as stated: whatever an adapter operation acquired (file, statement,
\* rows) is released when it returns, on every path.
C26_AsStated ==
    (madeBy \in {"LoadTable", "getTable"}) => made.open = {}

\* LoadTable with prepared inserts has returned nil and the batch file it
\* opened is still open.
C26_Reached ==
    /\ madeBy = "LoadTable"
    /\ made.via = "prepared"
    /\ made.err = "nil"
    /\ made.inserted = <<1, 2>>
    /\ made.open = {"file"}


\* C31: MySQL.ReplaceTable issues the drop of the deprecated table exactly
\* when drop_old is set and both renames succeeded, and no deprecated table
\* disappears otherwise; without drop_old a target that was moved stays
\* under the deprecated name; a target that does not exist makes the first
\* rename a no-op and the replacement is renamed all the same; when nil is
\* returned the target name holds the replacement table.
C31_ReplaceTable ==
    (madeBy = "ReplaceTable") =>
        LET dep == DeprecatedName(inc.t)
            moved == Exists(cur[DstName]) /\ made.err1 = "nil"
        IN  /\ made.drop <=> (inc.dropOldTable /\ made.err1 = "nil" /\ made.err2 = "nil")
            /\ ~made.drop =>
                  \A t \in 0..MaxClock :
                      Exists(cur[DeprecatedName(t)]) => Exists(made.db[DeprecatedName(t)])
            /\ (~inc.dropOldTable /\ moved) => made.db[dep] = cur[DstName]
            /\ (~Exists(cur[DstName]) /\ ~inc.faults.probe) =>
                  /\ made.err1 = "nil"
                  /\ made.db[dep] = cur[dep] \/ made.drop
                  /\ (Exists(cur[TmpName]) /\ ~inc.faults.rename2) =>
                        made.db[DstName] = cur[TmpName]
            /\ (made.err = "nil") =>
                  /\ Exists(cur[TmpName])
                  /\ made.db[DstName] = cur[TmpName]
                  /\ ~Exists(made.db[TmpName])

\* drop_old is set, the target exists, nothing fails: the replacement is
\* under the target name and the deprecated table is gone.
C31_Witness ==
    /\ madeBy = "ReplaceTable"
    /\ inc.dropOldTable
    /\ Exists(cur[DstName])
    /\ made.drop
    /\ made.err = "nil"
    /\ made.db[DstName] = cur[TmpName]
    /\ \A t \in 0..MaxClock : ~Exists(made.db[DeprecatedName(t)])

\* drop_old is not set: the old target is kept under the deprecated name.
C31_Retained ==
    /\ madeBy = "ReplaceTable"
    /\ ~inc.dropOldTable
    /\ made.err = "nil"
    /\ made.db[DeprecatedName(inc.t)] = OldTable
    /\ made.db[DstName] = cur[TmpName]


\* C32 as stated: two ReplaceTable streams on one destination table, each
\* naming its side table while the other is active, get different names.
C32_AsStated ==
    (madeBy = "tmpTableFunc") => made[1].name # made[2].name

\* Both streams named their side table within the same second: one name
\* for two tables of different columns.
C32_Reached ==
    /\ madeBy = "tmpTableFunc"
    /\ inc[1] = inc[2]
    /\ made[1].name = made[2].name
    /\ made[1].cols # made[2].cols


\* C33 as stated: LoadTable with prepared inserts returns nil only when
\* every line of the file was decoded and inserted, in file order; after
\* the first line that fails nothing more is inserted and an error is
\* returned.
C33_AsStated ==
    (madeBy = "LoadTable" /\ made.via = "prepared") =>
        /\ (made.err = "nil") => made.inserted = [i \in DOMAIN inc.lines |-> i]
        /\ (made.err # "nil" /\ made.inserted # <<>>) =>
              /\ Len(made.inserted) < Len(inc.lines)
              /\ \A i \in DOMAIN made.inserted :
                    made.inserted[i] = i /\ inc.lines[i] = "ok"

\* The scanner stopped at the second line, which it cannot read; the first
\* line is inserted and LoadTable returned nil.
C33_Reached ==
    /\ madeBy = "LoadTable"
    /\ made.via = "prepared"
    /\ inc.lines = <<"ok", "toolong">>
    /\ made.err = "nil"
    /\ made.inserted = <<1>>

\* ========================================================== StreamConsumer
\* Every call comes with a destination object of its own, and CreateStream
\* on it returns a stream of its own or an error: the number of the next
\* destination and of its stream (0: none left).
NextStreamId ==
    LET free == {i \in 1..MaxStreams :
                    bulkerStreams[i].status = "none" /\ leases[i] = 0}
    IN  IF free = {} THEN 0 ELSE CHOOSE i \in free : \A j \in free : i <= j

\* NewStreamConsumer: CreateStream, Store, start(), then Lease.
NewStreamConsumer ==
    \/ /\ ctl.pc = "new"
       /\ \E created \in BOOLEAN :
             IF created
             THEN /\ bulkerStreams' = [bulkerStreams EXCEPT ![NextStreamId] =
                         [@ EXCEPT !.dest = NextStreamId, !.status = "Active"]]
                  /\ sc' = [destination |-> NextStreamId, stream |-> NextStreamId,
                            closed |-> FALSE]
                  /\ loop' = [loop EXCEPT !.pc = "select"]
                  /\ ctl' = [ctl EXCEPT !.pc = "started"]
             ELSE /\ ctl' = [ctl EXCEPT !.pc = "failed", !.ret = "error"]
                  /\ UNCHANGED <<bulkerStreams, sc, loop>>
       /\ UNCHANGED <<leases, failedTopic, streamVars, schemaVars, flattenVars,
                      sidecarVars, writerVars>>
    \/ /\ ctl.pc = "started"
       /\ leases' = [leases EXCEPT ![sc.destination] = @ + 1]
       /\ ctl' = [ctl EXCEPT !.pc = "ready", !.ret = "nil"]
       /\ UNCHANGED <<sc, bulkerStreams, loop, failedTopic, streamVars, schemaVars,
                      flattenVars,
                      sidecarVars, writerVars>>

\* UpdateDestination: Lease the new destination, CreateStream (an error
\* returns at once), Swap, Complete the old stream, Release the old
\* destination, take the new one.
UpdateDestination ==
    \/ /\ ctl.pc = "ready"
       /\ NextStreamId # 0
       /\ leases' = [leases EXCEPT ![NextStreamId] = @ + 1]
       /\ ctl' = [pc |-> "leased", destination |-> NextStreamId, old |-> 0,
                  ret |-> "none"]
       /\ UNCHANGED <<sc, bulkerStreams, loop, failedTopic, streamVars, schemaVars,
                      flattenVars,
                      sidecarVars, writerVars>>
    \/ /\ ctl.pc = "leased"
       /\ \E created \in BOOLEAN :
             IF created
             THEN /\ bulkerStreams' = [bulkerStreams EXCEPT ![ctl.destination] =
                         [@ EXCEPT !.dest = ctl.destination, !.status = "Active"]]
                  /\ sc' = [sc EXCEPT !.stream = ctl.destination]
                  /\ ctl' = [ctl EXCEPT !.pc = "swapped", !.old = sc.stream]
             ELSE /\ ctl' = [ctl EXCEPT !.pc = "ready", !.ret = "error"]
                  /\ UNCHANGED <<bulkerStreams, sc>>
       /\ UNCHANGED <<leases, loop, failedTopic, streamVars, schemaVars, flattenVars,
                      sidecarVars, writerVars>>
    \/ /\ ctl.pc = "swapped"
       /\ bulkerStreams' = [bulkerStreams EXCEPT ![ctl.old] =
              [@ EXCEPT !.status = IF @ = "Active" THEN "Completing" ELSE @,
                        !.terminal = @ + 1]]
       /\ ctl' = [ctl EXCEPT !.pc = "completing"]
       /\ UNCHANGED <<sc, leases, loop, failedTopic, streamVars, schemaVars, flattenVars,
                      sidecarVars, writerVars>>
    \/ /\ ctl.pc = "completing"
       /\ bulkerStreams' = [bulkerStreams EXCEPT ![ctl.old].status = "Completed"]
       /\ ctl' = [ctl EXCEPT !.pc = "completed"]
       /\ UNCHANGED <<sc, leases, loop, failedTopic, streamVars, schemaVars, flattenVars,
                      sidecarVars, writerVars>>
    \/ /\ ctl.pc = "completed"
       /\ leases' = [leases EXCEPT ![sc.destination] = @ - 1]
       /\ sc' = [sc EXCEPT !.destination = ctl.destination]
       /\ ctl' = [ctl EXCEPT !.pc = "ready", !.ret = "nil"]
       /\ UNCHANGED <<bulkerStreams, loop, failedTopic, streamVars, schemaVars,
                      flattenVars,
                      sidecarVars, writerVars>>

\* A slip: Close releases the destination and leaves the channel open.
CloseWithoutSignal ==
    \/ /\ ctl.pc = "ready"
       /\ ctl' = [ctl EXCEPT !.pc = "closing"]
       /\ UNCHANGED <<sc, bulkerStreams, leases, loop, failedTopic, streamVars, schemaVars,
                      flattenVars,
                      sidecarVars, writerVars>>
    \/ /\ ctl.pc = "closing"
       /\ leases' = [leases EXCEPT ![sc.destination] = @ - 1]
       /\ ctl' = [ctl EXCEPT !.pc = "closed", !.ret = "nil"]
       /\ UNCHANGED <<sc, bulkerStreams, loop, failedTopic, streamVars, schemaVars,
                      flattenVars,
                      sidecarVars, writerVars>>

\* Close: close(sc.closed), then Release, without waiting for the goroutine.
Close ==
    \/ /\ ctl.pc = "ready"
       /\ sc' = [sc EXCEPT !.closed = TRUE]
       /\ ctl' = [ctl EXCEPT !.pc = "closing"]
       /\ UNCHANGED <<bulkerStreams, leases, loop, failedTopic, streamVars, schemaVars,
                      flattenVars,
                      sidecarVars, writerVars>>
    \/ /\ ctl.pc = "closing"
       /\ leases' = [leases EXCEPT ![sc.destination] = @ - 1]
       /\ ctl' = [ctl EXCEPT !.pc = "closed", !.ret = "nil"]
       /\ UNCHANGED <<sc, bulkerStreams, loop, failedTopic, streamVars, schemaVars,
                      flattenVars,
                      sidecarVars, writerVars>>

\* The goroutine of start(). Its outer err stays nil (the inner ones shadow
\* it), so on close it calls Complete. A read that times out or fails
\* changes nothing and is left out. A message is "good", "undecodable" or
\* "rejected" (Consume returns an error for it). The err tested before the
\* 'failed' topic is the decoder's: Consume's is declared in the else block.
start ==
    \/ /\ loop.pc = "select"
       /\ sc.closed
       /\ bulkerStreams' = [bulkerStreams EXCEPT ![sc.stream] =
              [@ EXCEPT !.status = IF @ = "Active" THEN "Completing" ELSE @,
                        !.terminal = @ + 1]]
       /\ loop' = [loop EXCEPT !.pc = "completing", !.stream = sc.stream]
       /\ UNCHANGED <<sc, leases, ctl, failedTopic, streamVars, schemaVars, flattenVars,
                      sidecarVars, writerVars>>
    \/ /\ loop.pc = "completing"
       /\ bulkerStreams' = [bulkerStreams EXCEPT ![loop.stream].status = "Completed"]
       /\ loop' = [loop EXCEPT !.pc = "done"]
       /\ UNCHANGED <<sc, leases, ctl, failedTopic, streamVars, schemaVars, flattenVars,
                      sidecarVars, writerVars>>
    \/ /\ loop.pc = "select"
       /\ ~sc.closed
       /\ loop.read < MaxMessages
       /\ \E message \in {"good", "undecodable", "rejected"} :
             IF message = "undecodable"
             THEN /\ failedTopic' = Append(failedTopic, loop.read + 1)
                  /\ loop' = [loop EXCEPT !.message = message, !.read = @ + 1,
                                          !.err = "error"]
             ELSE /\ loop' = [loop EXCEPT !.pc = "loaded", !.stream = sc.stream,
                                          !.message = message, !.read = @ + 1]
                  /\ UNCHANGED failedTopic
       /\ UNCHANGED <<sc, bulkerStreams, leases, ctl, streamVars, schemaVars, flattenVars,
                      sidecarVars, writerVars>>
    \/ /\ loop.pc = "loaded"
       /\ bulkerStreams' = [bulkerStreams EXCEPT ![loop.stream].consuming = TRUE]
       /\ loop' = [loop EXCEPT !.pc = "consuming",
                      !.err = IF loop.message = "rejected"
                                 \/ bulkerStreams[loop.stream].status # "Active"
                              THEN "error" ELSE "nil"]
       /\ UNCHANGED <<sc, leases, ctl, failedTopic, streamVars, schemaVars, flattenVars,
                      sidecarVars, writerVars>>
    \/ /\ loop.pc = "consuming"
       /\ bulkerStreams' = [bulkerStreams EXCEPT ![loop.stream].consuming = FALSE]
       /\ loop' = [loop EXCEPT !.pc = "select"]
       /\ UNCHANGED <<sc, leases, ctl, failedTopic, streamVars, schemaVars, flattenVars,
                      sidecarVars, writerVars>>

InitConsumer ==
    /\ sc = Unstarted.sc /\ bulkerStreams = Unstarted.bulkerStreams /\ leases = Unstarted.leases
    /\ loop = Unstarted.loop /\ ctl = Unstarted.ctl /\ failedTopic = <<>>
    /\ sidecar = NotRun.sidecar /\ procs = NotRun.procs /\ pipes = NotRun.pipes
    /\ sent = NotRun.sent /\ rwp = NoWriter.rwp /\ rwpProcs = NoWriter.rwpProcs
    /\ cur = None /\ inc = None /\ made = None /\ madeBy = None
    /\ json = None /\ flat = None /\ reflat = None
    /\ mode = None /\ merge = FALSE /\ useBatchFile = FALSE /\ dst0 = NoTable
    /\ status = None /\ lastError = "nil" /\ successfulRows = 0 /\ processedRows = 0
    /\ inited = FALSE /\ tx = "none" /\ batchFile = NoFile /\ tmpCols = NoColumns
    /\ joinRev = "UNKNOWN" /\ okIds = {} /\ seenCols = {} /\ errAtCall = "none"
    /\ lastOk = [i \in Ids |-> 0]
    /\ db = [n \in Names |-> NoTable]
    /\ txDst = NoTable /\ txDirty = FALSE /\ now = 0 /\ pc = "idle" /\ err = "nil"
    /\ rt = NoRT /\ log = <<>> /\ lastOp = "none" /\ ret = "nil"

NextConsumer ==
    \/ NewStreamConsumer
    \/ UpdateDestination
    \/ Close
    \/ start

SpecConsumer == InitConsumer /\ [][NextConsumer]_vars

\* The goroutine is scheduled as long as it has a step to take.
SpecConsumerFair == SpecConsumer /\ WF_vars(start)

\* C27 as stated: between calls of NewStreamConsumer, UpdateDestination and
\* Close the consumer holds one lease on its current destination and none
\* on another; none at all once closed or when it was not created.
C27_AsStated ==
    /\ (ctl.pc = "ready") =>
          leases = [d \in 1..MaxStreams |-> IF d = sc.destination THEN 1 ELSE 0]
    /\ (ctl.pc \in {"closed", "failed"}) => leases = [d \in 1..MaxStreams |-> 0]

\* UpdateDestination has returned an error and the destination it was
\* given, which is not the consumer's, is still leased.
C27_Reached ==
    /\ ctl.pc = "ready"
    /\ ctl.ret = "error"
    /\ ctl.destination # sc.destination
    /\ leases[ctl.destination] = 1
    /\ leases[sc.destination] = 1

\* C28 as stated: when a destination is released, every stream created on
\* it is already terminal.
C28_AsStated ==
    [][\A d \in 1..MaxStreams :
          (leases'[d] < leases[d]) =>
              \A i \in 1..MaxStreams :
                  (bulkerStreams[i].dest = d) => bulkerStreams[i].status = "Completed"]_vars

\* Close has released the destination and the consumer's stream is still
\* active: the goroutine has not called Complete yet.
C28_Reached ==
    /\ ctl.pc = "closed"
    /\ leases[sc.destination] = 0
    /\ bulkerStreams[sc.stream].status = "Active"
    /\ loop.pc # "done"

\* C29 as stated: no Consume runs on a stream on which Complete has been
\* called.
C29_AsStated ==
    \A i \in 1..MaxStreams :
        bulkerStreams[i].consuming => bulkerStreams[i].status = "Active"

\* The goroutine loaded the stream pointer, UpdateDestination swapped and
\* completed that stream, and Consume now runs on it.
C29_Reached ==
    /\ loop.pc = "consuming"
    /\ bulkerStreams[loop.stream].consuming
    /\ bulkerStreams[loop.stream].status = "Completed"
    /\ sc.stream # loop.stream

C35_AsStated ==
    (loop.pc = "select" /\ loop.read > 0) =>
        ((\E i \in DOMAIN failedTopic : failedTopic[i] = loop.read)
            <=> (loop.err # "nil"))

\* Consume returned an error for the message and the goroutine went on
\* without producing it to the 'failed' topic.
C35_Reached ==
    /\ loop.pc = "select"
    /\ loop.message = "rejected"
    /\ loop.err = "error"
    /\ \A i \in DOMAIN failedTopic : failedTopic[i] # loop.read

\* ================================================================= SideCar
\* The sync sidecar: Run reads the rows a source writes to stdout, pipes
\* the records of each stream to a bulk request, and ends by reporting a
\* status.  The rows of a run are the ones the Airbyte protocol gives its
\* command: logs, states and records for read; logs and the one result
\* row for spec, check and discover.  An unparsable line may come in any
\* run.  Lines of stderr are logged at level ERRSTD, which changes nothing
\* here.

Commands == {"read", "spec", "check", "discover"}

ResultRow == [spec |-> "SPEC", check |-> "CONNECTION_STATUS", discover |-> "CATALOG"]

isErrNever(s) == FALSE

isErr(s) == s.firstErr # 0

\* s.panic up to the panic itself: the error is kept if it is the first.
panic(s) ==
    [s EXCEPT !.errors = @ + 1,
              !.firstErr = IF @ = 0 THEN s.errors + 1 ELSE @]

sourceLogLastError(s, level) ==
    IF level \in {"ERROR", "FATAL"}
    THEN [s EXCEPT !.errors = @ + 1, !.firstErr = s.errors + 1]
    ELSE s

sourceLog(s, level) ==
    IF level \in {"ERROR", "FATAL"}
    THEN [s EXCEPT !.errors = @ + 1,
                   !.firstErr = IF @ = 0 THEN s.errors + 1 ELSE @]
    ELSE s

\* processSpec, processConnectionStatus, processCatalog up to the upsert.
processResult(s) == [s EXCEPT !.firstErr = 0, !.clearedAt = s.errors]

StreamsDoneAlways == TRUE

\* streamsWaitGroup.Wait() returns: every bulk goroutine has run its Done.
StreamsDone == \A n \in StreamNames : procs.bulk[n] # "running"

\* stdOutErrWaitGroup.Wait() returns.
ReadersDone == procs.out \in {"done", "panicked"} /\ procs.err \in {"done", "panicked"}

\* A goroutine other than main panics: its deferred Done has run, and the
\* process is about to die.
GoPanic(who) ==
    /\ sidecar' = panic(sidecar)
    /\ procs' = IF who \in StreamNames
                THEN [procs EXCEPT !.bulk[who] = "failed", !.crashing = TRUE]
                ELSE [procs EXCEPT ![who] = "panicked", !.crashing = TRUE]

\* The deferred function of Run, after a recovered panic or a return.
Deferred(s, recovered) ==
    IF recovered \/ isErr(s)
    THEN /\ sent' = [sent EXCEPT !.status = Append(@, "FAILED")]
         /\ procs' = [procs EXCEPT !.main = "done", !.exit = "exit1"]
    ELSE /\ sent' = [sent EXCEPT !.status = Append(@, "SUCCESS")]
         /\ procs' = [procs EXCEPT !.main = "done", !.exit = "returned"]

Run ==
    /\ procs.exit = "running"
    /\ UNCHANGED <<streamVars, schemaVars, flattenVars, consumerVars, writerVars>>
    /\ \/ \* the connection pool: a failure panics before any defer
          /\ procs.main = "start"
          /\ \E ok \in BOOLEAN :
                IF ok
                THEN /\ procs' = [procs EXCEPT !.main = "loading"]
                     /\ UNCHANGED sidecar
                ELSE /\ sidecar' = panic(sidecar)
                     /\ procs' = [procs EXCEPT !.main = "panicked", !.exit = "crashed"]
          /\ UNCHANGED <<pipes, sent>>
       \/ \* loadCatalog for read, then the two readers are started
          /\ procs.main = "loading"
          /\ \E catalog \in {StreamNames, {"A"}}, ok \in BOOLEAN :
                IF sidecar.command = "read" /\ ~ok
                THEN /\ sidecar' = panic(sidecar)
                     /\ Deferred(sidecar', TRUE)
                ELSE /\ sidecar' = [sidecar EXCEPT !.catalog =
                                       IF sidecar.command = "read" THEN catalog ELSE {}]
                     /\ procs' = [procs EXCEPT !.main = "waiting", !.out = "reading",
                                               !.err = "reading"]
                     /\ UNCHANGED sent
          /\ UNCHANGED pipes
       \/ \* both readers done: saveState, then the deferred function
          /\ procs.main = "waiting"
          /\ ReadersDone
          /\ \E ok \in BOOLEAN :
                IF sidecar.state /\ ~isErr(sidecar)
                THEN IF ok
                     THEN /\ UNCHANGED sidecar
                          /\ sent' = [sent EXCEPT !.state = TRUE,
                                                  !.status = Append(@, "SUCCESS")]
                          /\ procs' = [procs EXCEPT !.main = "done", !.exit = "returned"]
                     ELSE /\ sidecar' = panic(sidecar)
                          /\ Deferred(sidecar', TRUE)
                ELSE /\ ok
                     /\ UNCHANGED sidecar
                     /\ Deferred(sidecar, FALSE)
          /\ UNCHANGED pipes

\* processRecord for a record of stream n, as the stdout reader runs it.
processRecord(n) ==
    LET current == sidecar.currentStreamName
        closed == IF current # ""
                  THEN [sidecar EXCEPT !.processedStreams[current] = sidecar.eventsCounter,
                                       !.eventsCounter = 0]
                  ELSE sidecar
        closedPipes == IF current # "" THEN [pipes EXCEPT ![current].end = "closed"] ELSE pipes
    IN  IF isErr(sidecar)
        THEN /\ procs' = [procs EXCEPT !.rows = @ + 1, !.row = n]
             /\ UNCHANGED <<sidecar, pipes>>
        ELSE IF n = current
        THEN /\ sidecar' = [sidecar EXCEPT !.eventsCounter = @ + 1]
             /\ pipes' = [pipes EXCEPT ![n].records = @ + 1]
             /\ procs' = [procs EXCEPT !.rows = @ + 1, !.row = n]
        ELSE IF closed.processedStreams[n] # -1
        THEN /\ sidecar' = panic(closed)
             /\ pipes' = closedPipes
             /\ procs' = [procs EXCEPT !.rows = @ + 1, !.row = n,
                                       !.out = "panicked", !.crashing = TRUE]
        ELSE /\ sidecar' = [closed EXCEPT !.currentStreamName = n,
                                          !.eventsCounter = @ + 1]
             /\ pipes' = [closedPipes EXCEPT ![n] = [records |-> 1, end |-> "open"]]
             /\ procs' = [procs EXCEPT !.rows = @ + 1, !.row = n,
                                       !.bulk[n] = "running"]

StdoutReader ==
    /\ procs.exit = "running"
    /\ UNCHANGED <<streamVars, schemaVars, flattenVars, consumerVars, writerVars, sent>>
    /\ \/ \* a line that is not a row
          /\ procs.out = "reading" /\ procs.rows < MaxRows
          /\ sidecar' = panic(sidecar)
          /\ procs' = [procs EXCEPT !.rows = @ + 1, !.row = "unparsable",
                                    !.out = "panicked", !.crashing = TRUE]
          /\ UNCHANGED pipes
       \/ \* LOG
          /\ procs.out = "reading" /\ procs.rows < MaxRows
          /\ \E level \in {"INFO", "ERROR"} :
                /\ sidecar' = sourceLog(sidecar, level)
                /\ procs' = [procs EXCEPT !.rows = @ + 1, !.row = level]
          /\ UNCHANGED pipes
       \/ \* STATE
          /\ procs.out = "reading" /\ procs.rows < MaxRows
          /\ sidecar.command = "read"
          /\ sidecar' = [sidecar EXCEPT !.state = TRUE]
          /\ procs' = [procs EXCEPT !.rows = @ + 1, !.row = "STATE"]
          /\ UNCHANGED pipes
       \/ \* SPEC, CONNECTION_STATUS, CATALOG
          /\ procs.out = "reading" /\ procs.rows < MaxRows
          /\ sidecar.command # "read"
          /\ \E ok \in BOOLEAN :
                IF ok
                THEN /\ sidecar' = processResult(sidecar)
                     /\ procs' = [procs EXCEPT !.rows = @ + 1,
                                               !.row = ResultRow[sidecar.command]]
                ELSE /\ sidecar' = panic(processResult(sidecar))
                     /\ procs' = [procs EXCEPT !.rows = @ + 1,
                                               !.row = ResultRow[sidecar.command],
                                               !.out = "panicked", !.crashing = TRUE]
          /\ UNCHANGED pipes
       \/ \* RECORD
          /\ procs.out = "reading" /\ procs.rows < MaxRows
          /\ sidecar.command = "read"
          /\ \E n \in StreamNames : processRecord(n)
       \/ \* end of input, or a read error
          /\ procs.out = "reading"
          /\ \E ok \in BOOLEAN :
                LET current == sidecar.currentStreamName IN
                IF ~ok
                THEN /\ sidecar' = panic(sidecar)
                     /\ procs' = [procs EXCEPT !.out = "panicked", !.row = "none",
                                               !.crashing = TRUE]
                     /\ UNCHANGED pipes
                ELSE /\ procs' = [procs EXCEPT !.out = "waiting", !.row = "none"]
                     /\ IF current = "" THEN UNCHANGED <<sidecar, pipes>>
                        ELSE IF isErr(sidecar)
                        THEN /\ pipes' = [pipes EXCEPT ![current].end = "aborted"]
                             /\ UNCHANGED sidecar
                        ELSE /\ pipes' = [pipes EXCEPT ![current].end = "closed"]
                             /\ sidecar' = [sidecar EXCEPT !.processedStreams[current] =
                                                               sidecar.eventsCounter]
       \/ \* streamsWaitGroup.Wait(), then the deferred Done
          /\ procs.out = "waiting"
          /\ StreamsDone
          /\ procs' = [procs EXCEPT !.out = "done"]
          /\ UNCHANGED <<sidecar, pipes>>

StderrReader ==
    /\ procs.exit = "running"
    /\ procs.err = "reading"
    /\ UNCHANGED <<streamVars, schemaVars, flattenVars, consumerVars, writerVars,
                   sent, pipes>>
    /\ \E ok \in BOOLEAN :
          IF ok
          THEN /\ procs' = [procs EXCEPT !.err = "done"]
               /\ UNCHANGED sidecar
          ELSE GoPanic("err")

\* The goroutine of a stream's bulk request.  The request returns without
\* an error only after the pipe was closed.
BulkRequest ==
    /\ procs.exit = "running"
    /\ UNCHANGED <<streamVars, schemaVars, flattenVars, consumerVars, writerVars,
                   sent, pipes>>
    /\ \E n \in StreamNames :
          /\ procs.bulk[n] = "running"
          /\ \/ GoPanic(n)
             \/ /\ n \in sidecar.catalog
                /\ pipes[n].end \in {"closed", "aborted"}
                /\ procs' = [procs EXCEPT !.bulk[n] = "ok"]
                /\ UNCHANGED sidecar

\* A panic nobody recovered ends the process.
Crash ==
    /\ procs.exit = "running"
    /\ procs.crashing
    /\ procs' = [procs EXCEPT !.exit = "crashed"]
    /\ UNCHANGED <<streamVars, schemaVars, flattenVars, consumerVars, writerVars,
                   sidecar, sent, pipes>>

InitSidecar ==
    /\ sc = Unstarted.sc /\ bulkerStreams = Unstarted.bulkerStreams /\ leases = Unstarted.leases
    /\ loop = Unstarted.loop /\ ctl = Unstarted.ctl /\ failedTopic = <<>>
    /\ \E command \in Commands :
          sidecar = [NotRun.sidecar EXCEPT !.command = command]
    /\ procs = [NotRun.procs EXCEPT !.main = "start"]
    /\ pipes = NotRun.pipes /\ sent = NotRun.sent
    /\ rwp = NoWriter.rwp /\ rwpProcs = NoWriter.rwpProcs
    /\ cur = None /\ inc = None /\ made = None /\ madeBy = None
    /\ json = None /\ flat = None /\ reflat = None
    /\ mode = None /\ merge = FALSE /\ useBatchFile = FALSE /\ dst0 = NoTable
    /\ status = None /\ lastError = "nil" /\ successfulRows = 0 /\ processedRows = 0
    /\ inited = FALSE /\ tx = "none" /\ batchFile = NoFile /\ tmpCols = NoColumns
    /\ joinRev = "UNKNOWN" /\ okIds = {} /\ seenCols = {} /\ errAtCall = "none"
    /\ lastOk = [i \in Ids |-> 0]
    /\ db = [n \in Names |-> NoTable]
    /\ txDst = NoTable /\ txDirty = FALSE /\ now = 0 /\ pc = "idle" /\ err = "nil"
    /\ rt = NoRT /\ log = <<>> /\ lastOp = "none" /\ ret = "nil"

NextSidecar == Run \/ StdoutReader \/ StderrReader \/ BulkRequest \/ Crash

SpecSidecar == InitSidecar /\ [][NextSidecar]_vars

C37_AsStated ==
    procs.exit # "running"
        => (Len(sent.status) = 1 /\ sent.status[1] \in {"SUCCESS", "FAILED"})

\* A panic in the bulk request goroutine ended the process, and no status
\* was sent.
C37_Reached ==
    /\ procs.exit = "crashed"
    /\ \E n \in StreamNames : procs.bulk[n] = "failed"
    /\ procs.main = "waiting"
    /\ sent.status = <<>>

\* The step of the stdout reader that handled a record of stream n.
RecordStep(n) == procs'.rows = procs.rows + 1 /\ procs'.row = n

C38_Aborted ==
    \E n \in StreamNames :
        /\ pipes[n].end = "aborted" /\ pipes[n].records > 0
        /\ procs.out = "waiting"

\* The name of a closed stream came again.
C38_Reappeared ==
    /\ procs.out = "panicked" /\ procs.row = "A"
    /\ pipes["A"].end = "closed" /\ pipes["B"].end = "closed"
    /\ sidecar.processedStreams["A"] = 1 /\ sidecar.processedStreams["B"] = 1

\* C39: the sync state is persisted only after the stdout reader and the
\* stderr reader have finished and the bulk request of every stream that
\* was started has returned without an error; if a bulk request failed
\* the state is never persisted.
C39_StateAfterStreams ==
    /\ sent.state
          => /\ procs.out = "done" /\ procs.err = "done"
             /\ \A n \in StreamNames :
                   /\ procs.bulk[n] \in {"none", "ok"}
                   /\ pipes[n].end # "none" => procs.bulk[n] = "ok"
    /\ (\E n \in StreamNames : procs.bulk[n] = "failed") => ~sent.state

\* The state was persisted after the bulk requests of two streams.
C39_Witness ==
    /\ sent.state /\ sent.status = <<"SUCCESS">>
    /\ \A n \in StreamNames : procs.bulk[n] = "ok"

\* A bulk request failed, the run went on to its end and did not persist
\* the state it had read.
C39_FailedNotSaved ==
    /\ procs.exit = "exit1" /\ sidecar.state /\ ~sent.state
    /\ \E n \in StreamNames : procs.bulk[n] = "failed"

\* ====================================================== RollingWriterProxy
\* A lumberjack logger behind a counter of the records written: a ticker
\* goroutine rotates the log file, Write and Close are called by the users
\* of the writer.  Rotate and Write of the logger itself share the
\* logger's mutex and are one step each; the logger's own rotation at
\* logFileMaxSizeMB is left out.  records is a uint64 that rotate resets;
\* with MaxWrites writes it stays far from wrapping.

\* lWriter.Rotate() by thread who, which goes on at next.
Rotate(who, by, next) ==
    /\ rwp' = [rwp EXCEPT !.file = 0,
                          !.rotated = Append(@, [by |-> by, rotated |-> TRUE,
                                                 size |-> rwp.file])]
    /\ rwpProcs' = [rwpProcs EXCEPT ![who] = next]

\* rotate(), first half: atomic.SwapUint64(&rwp.records, 0) > 0.
rotate(who, next) ==
    IF rwp.records > 0
    THEN /\ rwp' = [rwp EXCEPT !.records = 0]
         /\ rwpProcs' = [rwpProcs EXCEPT ![who] = "rotating"]
    ELSE /\ rwp' = [rwp EXCEPT !.rotated = Append(@, [by |-> "rotate", rotated |-> FALSE,
                                                     size |-> rwp.file])]
         /\ rwpProcs' = [rwpProcs EXCEPT ![who] = next]

\* The goroutine NewRollingWriter starts.
Ticker ==
    /\ UNCHANGED <<streamVars, schemaVars, flattenVars, consumerVars, sidecarVars>>
    /\ \/ \* initial rotate
          /\ rwpProcs.ticker = "initial"
          /\ Rotate("ticker", "initial", "idle")
       \/ \* <-ticker.C, rwp.rotate()
          /\ rwpProcs.ticker = "idle"
          /\ Len(rwp.rotated) <= MaxWrites + 1
          /\ rotate("ticker", "idle")
       \/ /\ rwpProcs.ticker = "rotating"
          /\ Rotate("ticker", "rotate", "idle")

Write ==
    /\ UNCHANGED <<streamVars, schemaVars, flattenVars, consumerVars, sidecarVars>>
    /\ \/ \* atomic.AddUint64(&rwp.records, 1)
          /\ rwpProcs.closer = "idle"
          /\ rwpProcs.written < MaxWrites
          /\ rwp' = [rwp EXCEPT !.records = @ + 1]
          /\ rwpProcs' = [rwpProcs EXCEPT !.writing = @ + 1, !.written = @ + 1]
       \/ \* rwp.lWriter.Write(p)
          /\ rwpProcs.writing > 0
          /\ rwp' = [rwp EXCEPT !.file = @ + 1]
          /\ rwpProcs' = [rwpProcs EXCEPT !.writing = @ - 1]

RollingClose ==
    /\ UNCHANGED <<streamVars, schemaVars, flattenVars, consumerVars, sidecarVars>>
    /\ \/ \* if rwp.rotateOnClose { rwp.rotate() }
          /\ rwpProcs.closer = "idle"
          /\ IF rwp.rotateOnClose
             THEN rotate("closer", "closing")
             ELSE /\ rwpProcs' = [rwpProcs EXCEPT !.closer = "closing"]
                  /\ UNCHANGED rwp
       \/ /\ rwpProcs.closer = "rotating"
          /\ Rotate("closer", "rotate", "closing")
       \/ \* rwp.lWriter.Close()
          /\ rwpProcs.closer = "closing"
          /\ rwp' = [rwp EXCEPT !.closed = TRUE]
          /\ rwpProcs' = [rwpProcs EXCEPT !.closer = "closed"]

InitWriter ==
    /\ \E rotateOnClose \in BOOLEAN :
          rwp = [NoWriter.rwp EXCEPT !.rotateOnClose = rotateOnClose]
    /\ rwpProcs = [NoWriter.rwpProcs EXCEPT !.ticker = "initial", !.closer = "idle"]
    /\ sc = Unstarted.sc /\ bulkerStreams = Unstarted.bulkerStreams /\ leases = Unstarted.leases
    /\ loop = Unstarted.loop /\ ctl = Unstarted.ctl /\ failedTopic = <<>>
    /\ sidecar = NotRun.sidecar /\ procs = NotRun.procs /\ pipes = NotRun.pipes /\ sent = NotRun.sent
    /\ cur = None /\ inc = None /\ made = None /\ madeBy = None
    /\ json = None /\ flat = None /\ reflat = None
    /\ mode = None /\ merge = FALSE /\ useBatchFile = FALSE /\ dst0 = NoTable
    /\ status = None /\ lastError = "nil" /\ successfulRows = 0 /\ processedRows = 0
    /\ inited = FALSE /\ tx = "none" /\ batchFile = NoFile /\ tmpCols = NoColumns
    /\ joinRev = "UNKNOWN" /\ okIds = {} /\ seenCols = {} /\ errAtCall = "none"
    /\ lastOk = [i \in Ids |-> 0]
    /\ db = [n \in Names |-> NoTable]
    /\ txDst = NoTable /\ txDirty = FALSE /\ now = 0 /\ pc = "idle" /\ err = "nil"
    /\ rt = NoRT /\ log = <<>> /\ lastOp = "none" /\ ret = "nil"

NextWriter == Ticker \/ Write \/ RollingClose

SpecWriter == InitWriter /\ [][NextWriter]_vars

\* C40 as stated: under any interleaving of Write and rotate, rotate never
\* rotates a file that received no Write since the previous rotation, and
\* a rotate call that meets a file that received a Write rotates it.
C40_AsStated ==
    \A i \in 1..Len(rwp.rotated) :
        rwp.rotated[i].by = "rotate"
            => (rwp.rotated[i].rotated <=> rwp.rotated[i].size > 0)

\* One Write: rotate rotated the file before the Write reached it, and the
\* next rotate left the file with the Write in place.
C40_Reached ==
    /\ rwpProcs.written = 1 /\ rwpProcs.writing = 0
    /\ \E i, j \in 1..Len(rwp.rotated) :
          /\ i < j
          /\ rwp.rotated[i] = [by |-> "rotate", rotated |-> TRUE, size |-> 0]
          /\ rwp.rotated[j] = [by |-> "rotate", rotated |-> FALSE, size |-> 1]

====
